---- MODULE Spec2Model ----
(***************************************************************************)
(* A model of zarr/hierarchy.py: the Group handle over a flat key-value   *)
(* store, its mutation guard (_write_op) and its create/require/delete    *)
(* operations.                                                             *)
(*                                                                         *)
(* Strings (item names, paths, store keys) are sequences of tokens: a     *)
(* token is the separator "/", a one-segment name, or a reserved leaf     *)
(* name (".zgroup", ".zarray", a chunk key).  The store is a function     *)
(* from the keys it holds to their values.                                 *)
(***************************************************************************)
EXTENDS Naturals, Sequences, FiniteSets, TLC

VARIABLES store, chunk_store, locks, pc, handle, call, result, repeat, pending

vars == <<store, chunk_store, locks, pc, handle, call, result, repeat, pending>>

----------------------------------------------------------------------------
(* Bounds of the model. *)

\* Most keys the store and the chunk store may hold together.
MaxKeys == 4
\* Largest extent of a one-dimensional shape.
MaxExtent == 2
\* Threads that call into the hierarchy at the same time.
NumThreads == 2

----------------------------------------------------------------------------
(* Strings. *)

Sep == "/"
Names == {"a", "b"}
group_meta_key == ".zgroup"
array_meta_key == ".zarray"
chunk_key == "0"

\* One statement after another: e is evaluated once, then F of its value.
Then(e, F(_)) == CHOOSE r \in {F(x) : x \in {e}} : TRUE

\* path.split('/') without the empty segments that a leading, a trailing or
\* a repeated separator leaves.
split(path) == SelectSeq(path, LAMBDA c : c # Sep)

\* '/'.join(segments)
join(segments) ==
    [i \in 1..(2 * Len(segments) - 1) |->
        IF i % 2 = 1 THEN segments[(i + 1) \div 2] ELSE Sep]

\* zarr.util.normalize_storage_path: no leading or trailing separator, no
\* repeated separator.
normalize_storage_path(path) == Then(split(path), join)

\* zarr.storage._path_to_prefix
_path_to_prefix(path) == IF path # <<>> THEN path \o <<Sep>> ELSE <<>>

startswith(s, prefix) ==
    Len(prefix) <= Len(s) /\ SubSeq(s, 1, Len(prefix)) = prefix

----------------------------------------------------------------------------
(* The store: a mapping from keys to values. *)

GroupMeta == [tag |-> "group", shape |-> <<>>, dtype |-> ""]
ArrayMeta(shape, dtype) == [tag |-> "array", shape |-> shape, dtype |-> dtype]
ChunkBytes == [tag |-> "chunk", shape |-> <<>>, dtype |-> ""]

EmptyStore == [k \in {} |-> GroupMeta]

setitem(S, key, value) == [k \in DOMAIN S \cup {key} |-> IF k = key THEN value ELSE S[k]]

group_key(path) == _path_to_prefix(normalize_storage_path(path)) \o <<group_meta_key>>
array_key(path) == _path_to_prefix(normalize_storage_path(path)) \o <<array_meta_key>>

\* zarr.storage.contains_array / contains_group: one existence check each.
contains_array(S, path) == array_key(path) \in DOMAIN S
contains_group(S, path) == group_key(path) \in DOMAIN S

\* zarr.storage.rmdir: every key under the path's prefix goes.
rmdir(S, path) ==
    LET prefix == _path_to_prefix(normalize_storage_path(path))
    IN [k \in {x \in DOMAIN S : ~startswith(x, prefix)} |-> S[k]]

----------------------------------------------------------------------------
(* The collaborators of zarr.storage, zarr.creation and zarr.core.  A world *)
(* is the store, the separate chunk store and the error being raised, if   *)
(* any: once an error is raised nothing more is written.                   *)

NoStore == "none"
SeparateChunkStore == "chunks"

World(S, C) == [store |-> S, chunk |-> C, err |-> ""]

raise(w, e) == [w EXCEPT !.err = e]

\* rmdir of the store and, if one is configured, of the separate chunk store.
_rmdir_both(w, path, cs) ==
    [w EXCEPT !.store = rmdir(w.store, path),
              !.chunk = IF cs # NoStore THEN rmdir(w.chunk, path) ELSE w.chunk]

\* zarr.storage._init_group_metadata
_init_group_metadata(w, path, cs, overwrite) ==
    IF w.err # "" THEN w
    ELSE IF ~overwrite /\ contains_array(w.store, path) THEN raise(w, "ContainsArrayError")
    ELSE IF ~overwrite /\ contains_group(w.store, path) THEN raise(w, "ContainsGroupError")
    ELSE LET cleared == IF overwrite THEN _rmdir_both(w, path, cs) ELSE w
         IN [cleared EXCEPT !.store = setitem(cleared.store, group_key(path), GroupMeta)]

\* zarr.storage._require_parent_group: every proper prefix of the path, the
\* root included, is made a group, shortest first.
RECURSIVE _require_parents(_, _, _, _, _)
_require_parents(w, segments, i, cs, overwrite) ==
    IF i >= Len(segments) \/ w.err # "" THEN w
    ELSE Then(join(SubSeq(segments, 1, i)),
              LAMBDA p :
                  Then(IF contains_array(w.store, p)
                       THEN _init_group_metadata(w, p, cs, overwrite)
                       ELSE IF ~contains_group(w.store, p)
                       THEN _init_group_metadata(w, p, cs, FALSE)
                       ELSE w,
                       LAMBDA next : _require_parents(next, segments, i + 1, cs, overwrite)))

_require_parent_group(w, path, cs, overwrite) ==
    IF path # <<>> THEN _require_parents(w, split(path), 0, cs, overwrite) ELSE w

\* zarr.storage.init_group
init_group(w, path, cs, overwrite) ==
    Then(normalize_storage_path(path),
         LAMBDA p : Then(_require_parent_group(w, p, cs, overwrite),
                         LAMBDA w1 : _init_group_metadata(w1, p, cs, overwrite)))

\* zarr.util.normalize_shape: an integer becomes a one-element tuple.
normalize_shape(shape) == IF shape.int THEN <<shape.n>> ELSE shape.dims

IntShape(n) == [int |-> TRUE, n |-> n, dims |-> <<>>]
TupleShape(dims) == [int |-> FALSE, n |-> 0, dims |-> dims]

\* zarr.storage._init_array_metadata
_init_array_metadata(w, path, cs, shape, dtype, overwrite) ==
    IF w.err # "" THEN w
    ELSE IF ~overwrite /\ contains_array(w.store, path) THEN raise(w, "ContainsArrayError")
    ELSE IF ~overwrite /\ contains_group(w.store, path) THEN raise(w, "ContainsGroupError")
    ELSE LET cleared == IF overwrite THEN _rmdir_both(w, path, cs) ELSE w
         IN [cleared EXCEPT !.store =
                setitem(cleared.store, array_key(path), ArrayMeta(normalize_shape(shape), dtype))]

\* zarr.storage.init_array
init_array(w, path, cs, shape, dtype, overwrite) ==
    Then(normalize_storage_path(path),
         LAMBDA p : Then(_require_parent_group(w, p, cs, overwrite),
                         LAMBDA w1 : _init_array_metadata(w1, p, cs, shape, dtype,
                                                          overwrite)))

\* Writing an array's data stores its one chunk in the chunk store, which is
\* the store itself when no separate one is configured.
write_chunk(w, path, cs) ==
    LET key == _path_to_prefix(normalize_storage_path(path)) \o <<chunk_key>>
    IN IF w.err # "" THEN w
       ELSE IF cs # NoStore
       THEN [w EXCEPT !.chunk = setitem(w.chunk, key, ChunkBytes)]
       ELSE [w EXCEPT !.store = setitem(w.store, key, ChunkBytes)]

----------------------------------------------------------------------------
(* Handles and results. *)

NoSynchronizer == "none"
NoMeta == [tag |-> "", shape |-> <<>>, dtype |-> ""]

Returned(kind, path, read_only, cs, sync, meta, err) ==
    [kind |-> kind, path |-> path, read_only |-> read_only, chunk_store |-> cs,
     synchronizer |-> sync, meta |-> meta, err |-> err]

NoResult == Returned("NoCall", <<>>, FALSE, NoStore, NoSynchronizer, NoMeta, "")
Error(e) == Returned("Error", <<>>, FALSE, NoStore, NoSynchronizer, NoMeta, e)

\* A view of any path that holds group metadata.
Group_of_any_metadata(S, path, read_only, cs, sync) ==
    LET _path == normalize_storage_path(path)
        mkey == _path_to_prefix(_path) \o <<group_meta_key>>
    IN IF mkey \notin DOMAIN S THEN Error("GroupNotFoundError")
       ELSE Returned("Group", _path, read_only, cs, sync, S[mkey], "")

\* Group.__init__: a view of a path that holds group metadata and no array.
Group(S, path, read_only, cs, sync) ==
    LET _path == normalize_storage_path(path)
        mkey == _path_to_prefix(_path) \o <<group_meta_key>>
    IN IF contains_array(S, _path) THEN Error("ContainsArrayError")
       ELSE IF mkey \notin DOMAIN S THEN Error("GroupNotFoundError")
       ELSE Returned("Group", _path, read_only, cs, sync, S[mkey], "")

\* zarr.core.Array: a view of a path that holds array metadata.
Array(S, path, read_only, cs, sync) ==
    LET _path == normalize_storage_path(path)
    IN IF array_key(_path) \notin DOMAIN S THEN Error("ArrayNotFoundError")
       ELSE Returned("Array", _path, read_only, cs, sync, S[array_key(_path)], "")

\* What an operation leaves behind: the stores and what it returned or raised.
Outcome(w, r) ==
    [store |-> w.store, chunk |-> w.chunk,
     result |-> IF w.err # "" THEN Error(w.err) ELSE r]

\* zarr.creation.create
create(w, path, cs, sync, shape, dtype, overwrite) ==
    Then(init_array(w, path, cs, shape, dtype, overwrite),
         LAMBDA w1 : Outcome(w1, Array(w1.store, path, FALSE, cs, sync)))

\* zarr.creation.array: create from the data's shape and type, then write it.
array(data, w, path, cs, sync, overwrite) ==
    Then(init_array(w, path, cs, TupleShape(data.shape), data.dtype, overwrite),
         LAMBDA w1 : Then(write_chunk(w1, path, cs),
                          LAMBDA w2 : Outcome(w2, Array(w2.store, path, FALSE, cs, sync))))

----------------------------------------------------------------------------
(* numpy element types. *)

DTypes == {"i4", "i8"}

\* numpy.can_cast(from, to) under the default 'safe' rule.
can_cast(from, to) == from = to \/ (from = "i4" /\ to = "i8")

----------------------------------------------------------------------------
(* Group: the methods of a handle h, each from a world w and the arguments *)
(* of the call to an Outcome.                                              *)

NoShape == TupleShape(<<>>)
NoData == [shape |-> <<>>, dtype |-> ""]

Args(op, item, overwrite, shape, dtype, exact, data) ==
    [op |-> op, item |-> item, overwrite |-> overwrite, shape |-> shape,
     dtype |-> dtype, exact |-> exact, data |-> data]

NoCall == Args("", <<>>, FALSE, NoShape, "", FALSE, NoData)

ReturnedNone == Returned("None", <<>>, FALSE, NoStore, NoSynchronizer, NoMeta, "")

_key_prefix(h) == IF h.path # <<>> THEN h.path \o <<Sep>> ELSE <<>>

\* The handle's prefix put before absolute names too.
_item_path_always_prefixed(h, item) ==
    Then(normalize_storage_path(item),
         LAMBDA path : IF h.path # <<>> THEN _key_prefix(h) \o path ELSE path)

\* Group._item_path
_item_path(h, item) ==
    LET absolute == item # <<>> /\ item[1] = Sep
    IN Then(normalize_storage_path(item),
            LAMBDA path : IF ~absolute /\ h.path # <<>> THEN _key_prefix(h) \o path ELSE path)

\* Only the two sentinel keys of the path go: what is below it stays.
_delitem_nosync_sentinels_only(h, w, args) ==
    LET path == _item_path(h, args.item)
        kept == DOMAIN w.store \ {array_key(path), group_key(path)}
    IN IF contains_array(w.store, path) \/ contains_group(w.store, path)
       THEN Outcome([w EXCEPT !.store = [k \in kept |-> w.store[k]]], ReturnedNone)
       ELSE Outcome(raise(w, "KeyError"), ReturnedNone)

\* Group._delitem_nosync
_delitem_nosync(h, w, args) ==
    LET path == _item_path(h, args.item)
    IN IF contains_array(w.store, path) \/ contains_group(w.store, path)
       THEN Outcome([w EXCEPT !.store = rmdir(w.store, path)], ReturnedNone)
       ELSE Outcome(raise(w, "KeyError"), ReturnedNone)

\* The group sentinel written with no look at what the path holds.
_create_group_nosync_unchecked(h, w, args) ==
    LET path == _item_path(h, args.item)
    IN Then([w EXCEPT !.store = setitem(w.store, group_key(path), GroupMeta)],
            LAMBDA w1 : Outcome(w1, Returned("Group", path, h.read_only, h.chunk_store,
                                             h.synchronizer, GroupMeta, "")))

\* The terminal group initialized, its parents left as they are.
_create_group_nosync_terminal_only(h, w, args) ==
    LET path == _item_path(h, args.item)
    IN Then(_init_group_metadata(w, path, h.chunk_store, args.overwrite),
            LAMBDA w1 : Outcome(w1, Group(w1.store, path, h.read_only, h.chunk_store,
                                          h.synchronizer)))

\* overwrite=True handed to init_group whatever the caller passed.
_create_group_nosync_overwriting(h, w, args) ==
    LET path == _item_path(h, args.item)
    IN Then(init_group(w, path, h.chunk_store, TRUE),
            LAMBDA w1 : Outcome(w1, Group(w1.store, path, h.read_only, h.chunk_store,
                                          h.synchronizer)))

\* Group._create_group_nosync
_create_group_nosync(h, w, args) ==
    LET path == _item_path(h, args.item)
    IN Then(init_group(w, path, h.chunk_store, args.overwrite),
            LAMBDA w1 : Outcome(w1, Group(w1.store, path, h.read_only, h.chunk_store,
                                          h.synchronizer)))

\* The group initialized without asking whether the path is one already.
_require_group_nosync_always_init(h, w, args) ==
    LET path == _item_path(h, args.item)
    IN Then(init_group(w, path, h.chunk_store, args.overwrite),
            LAMBDA w1 : Outcome(w1, Group(w1.store, path, h.read_only, h.chunk_store,
                                          h.synchronizer)))

\* Group._require_group_nosync
_require_group_nosync(h, w, args) ==
    LET path == _item_path(h, args.item)
    IN Then(IF ~contains_group(w.store, path)
            THEN init_group(w, path, h.chunk_store, args.overwrite)
            ELSE w,
            LAMBDA w1 : Outcome(w1, Group(w1.store, path, h.read_only, h.chunk_store,
                                          h.synchronizer)))

\* Group._create_dataset_nosync
_create_dataset_nosync(h, w, args) ==
    LET path == _item_path(h, args.item)
    IN IF args.data = NoData
       THEN create(w, path, h.chunk_store, h.synchronizer, args.shape, args.dtype,
                   args.overwrite)
       ELSE array(args.data, w, path, h.chunk_store, h.synchronizer, args.overwrite)

\* The stored array returned without comparing its shape.
_require_dataset_nosync_any_shape(h, w, args) ==
    LET path == _item_path(h, args.item)
    IN IF contains_array(w.store, path)
       THEN LET a == Array(w.store, path, h.read_only, h.chunk_store, h.synchronizer)
            IN IF args.exact /\ args.dtype # a.meta.dtype
               THEN Outcome(raise(w, "TypeError"), a)
               ELSE IF ~args.exact /\ ~can_cast(args.dtype, a.meta.dtype)
               THEN Outcome(raise(w, "TypeError"), a)
               ELSE Outcome(w, a)
       ELSE _create_dataset_nosync(h, w, args)

\* Group._require_dataset_nosync
_require_dataset_nosync(h, w, args) ==
    LET path == _item_path(h, args.item)
    IN IF contains_array(w.store, path)
       THEN LET a == Array(w.store, path, h.read_only, h.chunk_store, h.synchronizer)
                shape == normalize_shape(args.shape)
            IN IF shape # a.meta.shape THEN Outcome(raise(w, "TypeError"), a)
               ELSE IF args.exact /\ args.dtype # a.meta.dtype
               THEN Outcome(raise(w, "TypeError"), a)
               ELSE IF ~args.exact /\ ~can_cast(args.dtype, a.meta.dtype)
               THEN Outcome(raise(w, "TypeError"), a)
               ELSE Outcome(w, a)
       ELSE _create_dataset_nosync(h, w, args)

\* Group._create_nosync, and with it _empty_nosync, _zeros_nosync, _ones_nosync,
\* _full_nosync and their _like variants: each resolves the path and hands the
\* store, the path and the chunk store to its creation function, which
\* initializes the array and writes no chunk.
_create_nosync(h, w, args) ==
    LET path == _item_path(h, args.item)
    IN create(w, path, h.chunk_store, h.synchronizer, args.shape, args.dtype, args.overwrite)

\* Group._array_nosync
_array_nosync(h, w, args) ==
    LET path == _item_path(h, args.item)
    IN array(args.data, w, path, h.chunk_store, h.synchronizer, args.overwrite)

\* The array created without overwrite.
_setitem_keeping(h, w, args) ==
    Then(_array_nosync(h, w, [args EXCEPT !.overwrite = FALSE]),
         LAMBDA out : [out EXCEPT !.result = IF @.kind = "Error" THEN @ ELSE ReturnedNone])

\* Group.__setitem__: self.array(item, value, overwrite=True), and nothing
\* is returned.
_setitem(h, w, args) ==
    Then(_array_nosync(h, w, [args EXCEPT !.overwrite = TRUE]),
         LAMBDA out : [out EXCEPT !.result = IF @.kind = "Error" THEN @ ELSE ReturnedNone])

\* Group.__contains__
__contains__(h, S, item) ==
    LET path == _item_path(h, item)
    IN contains_array(S, path) \/ contains_group(S, path)

\* The group sentinel looked at first.
__getitem___group_first(h, S, item) ==
    LET path == _item_path(h, item)
    IN IF contains_group(S, path)
       THEN Returned("Group", path, h.read_only, h.chunk_store, h.synchronizer,
                     S[group_key(path)], "")
       ELSE IF contains_array(S, path)
       THEN Array(S, path, h.read_only, h.chunk_store, h.synchronizer)
       ELSE Error("KeyError")

\* A lookup whose handles are writable whatever the handle looked up through.
__getitem___writable(h, S, item) ==
    LET path == _item_path(h, item)
    IN IF contains_array(S, path)
       THEN Array(S, path, FALSE, h.chunk_store, h.synchronizer)
       ELSE IF contains_group(S, path)
       THEN Group(S, path, FALSE, h.chunk_store, h.synchronizer)
       ELSE Error("KeyError")

\* Group.__getitem__
__getitem__(h, S, item) ==
    LET path == _item_path(h, item)
    IN IF contains_array(S, path)
       THEN Array(S, path, h.read_only, h.chunk_store, h.synchronizer)
       ELSE IF contains_group(S, path)
       THEN Group(S, path, h.read_only, h.chunk_store, h.synchronizer)
       ELSE Error("KeyError")

\* Group.__getattr__: access to the members by dot notation.
_attribute(r) == IF r = Error("KeyError") THEN Error("AttributeError") ELSE r

__getattr__(h, S, item) == _attribute(__getitem__(h, S, item))

\* The one-segment names and leaf names in the order of Python's strings.
Alphabet == <<array_meta_key, group_meta_key, chunk_key, "a", "b">>

Range(seq) == {seq[i] : i \in 1..Len(seq)}

\* sorted(listing)
sorted(listing) == SelectSeq(Alphabet, LAMBDA c : c \in Range(listing))

\* The first segment, below the path, of every key under the path.
children(S, path) ==
    LET prefix == _path_to_prefix(normalize_storage_path(path))
    IN {k[Len(prefix) + 1] : k \in {x \in DOMAIN S : startswith(x, prefix)}}

\* The orders a store may list names in.
Listings(names) == {l \in [1..Cardinality(names) -> names] : Range(l) = names}

\* zarr.storage.listdir: the children of the path, in an order of the
\* store's own, which here is the descending one.
listdir(S, path) ==
    LET names == children(S, path)
        down == [i \in 1..Len(Alphabet) |-> Alphabet[Len(Alphabet) + 1 - i]]
    IN SelectSeq(down, LAMBDA c : c \in names)

\* The keys yielded as the store lists them, and those that are not members
\* with them.
__iter___as_listed(h, S, listing) == listing

\* Group.__iter__ over what listdir returned: the names it yields, in the
\* order it yields them.
__iter__(h, S, listing) ==
    SelectSeq(sorted(listing),
              LAMBDA key : \/ contains_array(S, _key_prefix(h) \o <<key>>)
                           \/ contains_group(S, _key_prefix(h) \o <<key>>))

\* Group.__len__
__len__(h, S, listing) == Len(__iter__(h, S, listing))

\* Group.keys, of MutableMapping: the names of a full iteration.
keys(h, S) == __iter__(h, S, listdir(S, h.path))

\* Group.group_keys
group_keys(h, S) ==
    SelectSeq(sorted(listdir(S, h.path)),
              LAMBDA key : contains_group(S, _key_prefix(h) \o <<key>>))

\* Group.groups: a pair of the name and a Group of it for each group name;
\* a Group that cannot be constructed is the error that ends the iteration.
_groups(h, S, names) ==
    [i \in 1..Len(names) |->
        <<names[i],
          Group(S, _key_prefix(h) \o <<names[i]>>, h.read_only, h.chunk_store,
                h.synchronizer)>>]

groups(h, S) == _groups(h, S, group_keys(h, S))

\* Group.array_keys
array_keys(h, S) ==
    SelectSeq(sorted(listdir(S, h.path)),
              LAMBDA key : contains_array(S, _key_prefix(h) \o <<key>>))

\* Group.arrays: a pair of the name and an Array of it for each array name.
_arrays(h, S, names) ==
    [i \in 1..Len(names) |->
        <<names[i],
          Array(S, _key_prefix(h) \o <<names[i]>>, h.read_only, h.chunk_store,
                h.synchronizer)>>]

arrays(h, S) == _arrays(h, S, array_keys(h, S))

\* Group.name, and the name of an Array: the path after a leading separator.
name(o) ==
    IF o.path # <<>>
    THEN (IF o.path[1] # Sep THEN <<Sep>> \o o.path ELSE o.path)
    ELSE <<Sep>>

\* str.lstrip("/")
lstrip(s) ==
    LET kept == {i \in 1..Len(s) : s[i] # Sep}
    IN IF kept = {} THEN <<>>
       ELSE SubSeq(s, CHOOSE i \in kept : \A j \in kept : i <= j, Len(s))

\* Group.visitvalues, the generator _visit(obj): obj, then what _visit yields
\* for obj[key], for each key of sorted(obj.keys()); an Array has no keys.
RECURSIVE _visit(_, _), _visit_keys(_, _, _, _)
_visit(obj, S) ==
    <<obj>> \o (IF obj.kind = "Group"
                THEN _visit_keys(obj, S, sorted(keys(obj, S)), 1)
                ELSE <<>>)

_visit_keys(obj, S, each, i) ==
    IF i > Len(each) THEN <<>>
    ELSE _visit(__getitem__(obj, S, <<each[i]>>), S) \o _visit_keys(obj, S, each, i + 1)

\* The visitor function of a traversal: it returns None until its stop-th
\* call and a value at that call; stop = 0 is a function that always
\* returns None.
NoneValue == "None"
VisitorValue == "value"

\* sorted(obj.keys()), the store's listings it makes of the children of obj:
\* none of an Array, which has no keys; of a Group two, because building the
\* list of the keys asks the length of the group before it iterates it, and
\* Group.__len__ is an iteration of its own.
_listdir_calls(obj) == IF obj.kind = "Group" THEN <<obj.path, obj.path>> ELSE <<>>

\* The listings of the objects whose generators were resumed, in order.
RECURSIVE _resumed(_)
_resumed(objs) ==
    IF objs = <<>> THEN <<>> ELSE _listdir_calls(Head(objs)) \o _resumed(Tail(objs))

\* What a traversal makes of the objects `all` that _visit yields, the handle
\* first: the arguments func was called with, in order, what the traversal
\* returned, and the listings made when `resumed` of the generators had been
\* resumed.
_traversal(all, called, resumed, returned) ==
    [calls |-> SubSeq(all, 2, called + 1),
     returned |-> returned,
     listed |-> _resumed(SubSeq(all, 1, resumed))]

\* The traversal going on after func has returned a value.
visitvalues_exhaustive(h, S, stop) ==
    LET all == _visit(h, S)
    IN _traversal(all, Len(all) - 1, Len(all),
                  IF stop \in 1..(Len(all) - 1) THEN VisitorValue ELSE NoneValue)

\* The traversal with the handle itself as its first node.
visitvalues_from_self(h, S, stop) ==
    LET all == _visit(h, S)
    IN IF stop \in 1..Len(all)
       THEN [calls |-> SubSeq(all, 1, stop), returned |-> VisitorValue,
             listed |-> _resumed(SubSeq(all, 1, stop - 1))]
       ELSE [calls |-> all, returned |-> NoneValue, listed |-> _resumed(all)]

\* The traversal that has listed the children of a node before it calls
\* func with it.
visitvalues_eager(h, S, stop) ==
    LET all == _visit(h, S)
    IN IF stop \in 1..(Len(all) - 1)
       THEN _traversal(all, stop, stop + 1, VisitorValue)
       ELSE _traversal(all, Len(all) - 1, Len(all), NoneValue)

\* for each_obj in islice(_visit(self), 1, None): the handle is skipped, and
\* func is called until it returns a value.  _visit is a generator: it
\* yields an object and lists its children only when it is asked for the
\* next one, so by the stop-th call of func the handle and the objects of
\* the calls before have been resumed.
_islice(all, stop) ==
    IF stop \in 1..(Len(all) - 1)
    THEN _traversal(all, stop, stop, VisitorValue)
    ELSE _traversal(all, Len(all) - 1, Len(all), NoneValue)

\* Group.visitvalues
visitvalues(h, S, stop) == _islice(_visit(h, S), stop)

\* Group.visit and Group.visitkeys: func is called with the object's name
\* after the handle's own.
visit(h, S, stop) ==
    LET base_len == Len(name(h))
        v == visitvalues(h, S, stop)
    IN [v EXCEPT !.calls =
           [i \in 1..Len(v.calls) |->
               lstrip(SubSeq(name(v.calls[i]), base_len + 1, Len(name(v.calls[i]))))]]

\* Group.visititems: func is called with that name and the object.
visititems(h, S, stop) ==
    LET base_len == Len(name(h))
        v == visitvalues(h, S, stop)
    IN [v EXCEPT !.calls =
           [i \in 1..Len(v.calls) |->
               <<lstrip(SubSeq(name(v.calls[i]), base_len + 1, Len(name(v.calls[i])))),
                 v.calls[i]>>]]

\* The function f that each public method hands to _write_op.
_nosync(h, w, args) ==
    CASE args.op = "create_group" -> _create_group_nosync(h, w, args)
      [] args.op = "require_group" -> _require_group_nosync(h, w, args)
      [] args.op = "create_dataset" -> _create_dataset_nosync(h, w, args)
      [] args.op = "require_dataset" -> _require_dataset_nosync(h, w, args)
      [] args.op = "create" -> _create_nosync(h, w, args)
      [] args.op = "array" -> _array_nosync(h, w, args)
      [] args.op = "__setitem__" -> _setitem(h, w, args)
      [] args.op = "__delitem__" -> _delitem_nosync(h, w, args)

MutatingOps == {"create_group", "require_group", "create_dataset", "require_dataset",
                "create", "array", "__setitem__", "__delitem__"}

\* No guard condition at all.
_read_only_guard_missing(h) == FALSE

\* Group._write_op, the guard condition: a read-only handle refuses.
_read_only_guard(h) == h.read_only

\* A lock per handle path instead of one for the whole hierarchy.
_lock_key_per_path(h) == <<h.synchronizer, _key_prefix(h) \o <<group_meta_key>>>>

\* Group._write_op, the name the lock is taken under: one fixed key of the
\* handle's synchronizer, whatever the handle's path.
_lock_key(h) == <<h.synchronizer, <<group_meta_key>>>>

\* Group._write_op run as one step by a caller that nobody interleaves with.
_write_op(h, w, args) ==
    IF _read_only_guard(h) THEN Outcome(raise(w, "ReadOnlyError"), ReturnedNone)
    ELSE _nosync(h, w, args)

----------------------------------------------------------------------------
(* State.  Each thread holds a Group handle and calls its methods; call    *)
(* and result are the thread's latest call and what it returned or raised, *)
(* and repeat tells whether that call had the arguments of the thread's    *)
(* call before it.                                                         *)

Threads == 1..NumThreads
Main == 1

\* What a thread has still to do of the call it is in: the store updates
\* not yet made, the names not yet handled, and what the call will return.
Pending(ops, rest, r) == [ops |-> ops, rest |-> rest, result |-> r]
NoPending == Pending(<<>>, <<>>, NoResult)

KeyCount(S, C) == Cardinality(DOMAIN S) + Cardinality(DOMAIN C)

\* zarr.hierarchy.group() on a new store: the root group, and a handle of it.
RootStore == init_group(World(EmptyStore, EmptyStore), <<>>, NoStore, FALSE).store
RootHandle(cs, sync) == Group(RootStore, <<>>, FALSE, cs, sync)

InitStores ==
    /\ store = RootStore
    /\ chunk_store = EmptyStore
    /\ locks = {}
    /\ pc = [t \in Threads |-> "idle"]
    /\ call = [t \in Threads |-> NoCall]
    /\ result = [t \in Threads |-> NoResult]
    /\ repeat = [t \in Threads |-> FALSE]
    /\ pending = [t \in Threads |-> NoPending]

\* One caller, no synchronizer; the hierarchy keeps its chunks in the store
\* or in a separate chunk store.
Init ==
    /\ InitStores
    /\ \E cs \in {NoStore, SeparateChunkStore} :
           handle = [t \in Threads |-> RootHandle(cs, NoSynchronizer)]

\* Group(store, path, read_only, chunk_store, synchronizer): thread t takes a
\* handle of another path of the same stores.
Open(t, path, read_only) ==
    /\ pc[t] = "idle"
    /\ \E r \in {Group(store, path, read_only, handle[t].chunk_store, handle[t].synchronizer)} :
       /\ result' = [result EXCEPT ![t] = r]
       /\ call' = [call EXCEPT ![t] = Args("Group", path, FALSE, NoShape, "", FALSE, NoData)]
       /\ repeat' = [repeat EXCEPT ![t] = FALSE]
       /\ handle' = [handle EXCEPT ![t] = IF r.kind = "Group" THEN r ELSE @]
       /\ UNCHANGED <<store, chunk_store, locks, pc, pending>>

\* A whole call of a mutating method by a thread nobody interleaves with:
\* the lock, if any, is taken and given back within the step.
Mutate(t, args) ==
    /\ pc[t] = "idle"
    /\ \E out \in {_write_op(handle[t], World(store, chunk_store), args)} :
       /\ \A l \in locks : l[1] # _lock_key(handle[t])
       /\ KeyCount(out.store, out.chunk) <= MaxKeys
       /\ store' = out.store
       /\ chunk_store' = out.chunk
       /\ call' = [call EXCEPT ![t] = args]
       /\ repeat' = [repeat EXCEPT ![t] = (args = call[t])]
       /\ result' = [result EXCEPT ![t] = out.result]
       /\ UNCHANGED <<locks, pc, handle, pending>>

\* The public mutating methods: each is _write_op around its own function.
CreateGroup(t, args) == args.op = "create_group" /\ Mutate(t, args)

RequireGroup(t, args) == args.op = "require_group" /\ Mutate(t, args)

CreateDataset(t, args) == args.op = "create_dataset" /\ Mutate(t, args)

RequireDataset(t, args) == args.op = "require_dataset" /\ Mutate(t, args)

Create(t, args) == args.op = "create" /\ Mutate(t, args)

ArrayFrom(t, args) == args.op = "array" /\ Mutate(t, args)

SetItem(t, args) == args.op = "__setitem__" /\ Mutate(t, args)

DelItem(t, args) == args.op = "__delitem__" /\ Mutate(t, args)

Call(t, args) ==
    \/ CreateGroup(t, args)
    \/ RequireGroup(t, args)
    \/ CreateDataset(t, args)
    \/ RequireDataset(t, args)
    \/ Create(t, args)
    \/ ArrayFrom(t, args)
    \/ SetItem(t, args)
    \/ DelItem(t, args)

Shapes == {IntShape(n) : n \in 1..MaxExtent} \cup {TupleShape(<<n>>) : n \in 1..MaxExtent}

DataOf(shape, dtype) == [shape |-> normalize_shape(shape), dtype |-> dtype]

\* The calls of the group methods, their arguments drawn from the given sets.
GroupCalls(items) ==
    {Args(op, item, overwrite, NoShape, "", FALSE, NoData) :
        op \in {"create_group", "require_group"}, item \in items, overwrite \in BOOLEAN}
    \cup {Args("__delitem__", item, FALSE, NoShape, "", FALSE, NoData) : item \in items}

\* The calls of the array methods that take a shape and an element type.
ShapeCalls(ops, items, shapes, dtypes, exacts) ==
    UNION {{Args(op, item, overwrite, shape, dtype, exact, NoData) :
               op \in ops, item \in items, overwrite \in BOOLEAN} :
           shape \in shapes, dtype \in dtypes, exact \in exacts}

\* The calls of the array methods that take data.
DataCalls(ops, items, shapes, dtypes, overwrites) ==
    UNION {{Args(op, item, overwrite, NoShape, "", FALSE, DataOf(shape, dtype)) :
               op \in ops, item \in items, overwrite \in overwrites} :
           shape \in shapes, dtype \in dtypes}

\* Item names: relative, nested, absolute, the root.
Items == {<<"a">>, <<"b">>, <<"a", Sep, "b">>, <<Sep, "a">>, <<Sep>>}

\* The namespace: every kind of item name through the root handle or a
\* handle of "a", one shape and one element type.
NamespaceCalls ==
    GroupCalls(Items \cup {<<"a", Sep, "b", Sep, "a">>})
    \cup ShapeCalls({"create_dataset"}, Items, {IntShape(1)}, {"i4"}, {FALSE})
    \cup ShapeCalls({"require_dataset"}, Items, {IntShape(1)}, {"i4"}, {FALSE})
    \cup ShapeCalls({"create"}, {<<"a">>}, {IntShape(1)}, {"i4"}, {FALSE})
    \cup DataCalls({"array"}, {<<"a">>}, {IntShape(1)}, {"i4"}, BOOLEAN)
    \cup DataCalls({"__setitem__"}, Items, {IntShape(1)}, {"i4"}, {FALSE})

Next ==
    \/ \E path \in {<<>>, <<"a">>} : Open(Main, path, FALSE)
    \/ \E args \in NamespaceCalls : Call(Main, args)

Spec == Init /\ [][Next]_vars

\* The datasets: one member, every shape and element type, exact or not.
DatasetCalls ==
    GroupCalls({<<"a">>})
    \cup ShapeCalls({"create_dataset", "create"}, {<<"a">>}, Shapes, DTypes, {FALSE})
    \cup ShapeCalls({"require_dataset"}, {<<"a">>}, Shapes, DTypes, BOOLEAN)
    \cup DataCalls({"array"}, {<<"a">>}, Shapes, DTypes, BOOLEAN)
    \cup DataCalls({"__setitem__"}, {<<"a">>}, Shapes, DTypes, {FALSE})

NextDataset ==
    \/ \E path \in {<<>>, <<"a">>} : Open(Main, path, FALSE)
    \/ \E args \in DatasetCalls : Call(Main, args)

DatasetSpec == Init /\ [][NextDataset]_vars

\* Assignment: every kind of item name assigned to through a handle of the
\* root or of "a", read-only or not, among the other mutations of "a" and
\* "a/b".
AssignCalls ==
    GroupCalls({<<"a">>, <<"a", Sep, "b">>})
    \cup ShapeCalls({"create_dataset", "require_dataset", "create"}, {<<"a">>},
                    {IntShape(1)}, {"i4"}, {FALSE})
    \cup DataCalls({"array"}, {<<"a">>}, {IntShape(1)}, {"i4"}, {FALSE})
    \cup DataCalls({"__setitem__"}, Items, {IntShape(1)}, {"i4"}, {FALSE})

NextAssign ==
    \/ \E path \in {<<>>, <<"a">>}, read_only \in BOOLEAN : Open(Main, path, read_only)
    \/ \E args \in AssignCalls : Call(Main, args)

AssignSpec == Init /\ [][NextAssign]_vars

----------------------------------------------------------------------------
(* Reading.  The store is any mutable mapping: what a handle reads may     *)
(* have been written by anyone, so the reading methods are applied to      *)
(* every store of a bounded universe, stray keys and paths that hold both  *)
(* sentinels included.                                                     *)

\* The largest call at which a visitor function returns a value.
MaxStop == 3

ReadArgs(op, item, stop) == [op |-> op, item |-> item, stop |-> stop]

Answer(value) == [kind |-> "Value", value |-> value]

\* The reading methods answering from the store as it was when the root
\* handle was made.
_read_cached(h, S, args) ==
    CASE args.op = "_item_path" -> Answer(_item_path(h, args.item))
      [] args.op = "__contains__" -> Answer(__contains__(h, RootStore, args.item))
      [] args.op = "__getitem__" -> __getitem__(h, RootStore, args.item)
      [] args.op = "visitvalues" -> Answer(visitvalues(h, RootStore, args.stop))
      [] args.op = "visit" -> Answer(visit(h, RootStore, args.stop))
      [] args.op = "visitkeys" -> Answer(visit(h, RootStore, args.stop))
      [] args.op = "visititems" -> Answer(visititems(h, RootStore, args.stop))

\* The reading methods of a handle h over the store S.
_read(h, S, args) ==
    CASE args.op = "_item_path" -> Answer(_item_path(h, args.item))
      [] args.op = "__contains__" -> Answer(__contains__(h, S, args.item))
      [] args.op = "__getitem__" -> __getitem__(h, S, args.item)
      [] args.op = "visitvalues" -> Answer(visitvalues(h, S, args.stop))
      [] args.op = "visit" -> Answer(visit(h, S, args.stop))
      [] args.op = "visitkeys" -> Answer(visit(h, S, args.stop))
      [] args.op = "visititems" -> Answer(visititems(h, S, args.stop))
      [] args.op = "group_keys" -> Answer(group_keys(h, S))
      [] args.op = "groups" -> Answer(groups(h, S))
      [] args.op = "array_keys" -> Answer(array_keys(h, S))
      [] args.op = "arrays" -> Answer(arrays(h, S))
      [] args.op = "__getattr__" -> __getattr__(h, S, args.item)

\* A reading method that waits until the lock of the handle's synchronizer
\* is free.
Read_when_free(t, args) ==
    /\ pc[t] = "idle"
    /\ \A l \in locks : l[1] # _lock_key(handle[t])
    /\ call' = [call EXCEPT ![t] = args]
    /\ result' = [result EXCEPT ![t] = _read(handle[t], store, args)]
    /\ repeat' = [repeat EXCEPT ![t] = FALSE]
    /\ UNCHANGED <<store, chunk_store, locks, pc, handle, pending>>

\* A whole call of a reading method by thread t.
Read(t, args) ==
    /\ pc[t] = "idle"
    /\ call' = [call EXCEPT ![t] = args]
    /\ result' = [result EXCEPT ![t] = _read(handle[t], store, args)]
    /\ repeat' = [repeat EXCEPT ![t] = FALSE]
    /\ UNCHANGED <<store, chunk_store, locks, pc, handle, pending>>

ItemPath(t, args) == args.op = "_item_path" /\ Read(t, args)

Contains(t, args) == args.op = "__contains__" /\ Read(t, args)

GetItem(t, args) == args.op = "__getitem__" /\ Read(t, args)

\* A whole iteration of the handle, in whatever order the store lists the
\* names.
Iterate(t, args) ==
    /\ pc[t] = "idle"
    /\ \E listing \in Listings(children(store, handle[t].path)) :
           result' = [result EXCEPT ![t] =
                         Answer(IF args.op = "__iter__"
                                THEN __iter__(handle[t], store, listing)
                                ELSE __len__(handle[t], store, listing))]
    /\ call' = [call EXCEPT ![t] = args]
    /\ repeat' = [repeat EXCEPT ![t] = FALSE]
    /\ UNCHANGED <<store, chunk_store, locks, pc, handle, pending>>

Iter(t, args) == args.op = "__iter__" /\ Iterate(t, args)

Length(t, args) == args.op = "__len__" /\ Iterate(t, args)

VisitValues(t, args) == args.op = "visitvalues" /\ Read(t, args)

Visit(t, args) == args.op = "visit" /\ Read(t, args)

VisitKeys(t, args) == args.op = "visitkeys" /\ Read(t, args)

VisitItems(t, args) == args.op = "visititems" /\ Read(t, args)

ReadCall(t, args) ==
    \/ ItemPath(t, args)
    \/ Contains(t, args)
    \/ GetItem(t, args)
    \/ Iter(t, args)
    \/ Length(t, args)
    \/ VisitValues(t, args)
    \/ Visit(t, args)
    \/ VisitKeys(t, args)
    \/ VisitItems(t, args)

VisitOps == {"visitvalues", "visit", "visitkeys", "visititems"}

GroupKeys(t, args) == args.op = "group_keys" /\ Read(t, args)
Groups(t, args) == args.op = "groups" /\ Read(t, args)
ArrayKeys(t, args) == args.op = "array_keys" /\ Read(t, args)
Arrays(t, args) == args.op = "arrays" /\ Read(t, args)

\* The views of the members by kind.
ViewCall(t, args) ==
    \/ GroupKeys(t, args)
    \/ Groups(t, args)
    \/ ArrayKeys(t, args)
    \/ Arrays(t, args)

ViewOps == {"group_keys", "groups", "array_keys", "arrays"}
ViewCalls == {ReadArgs(op, <<>>, 0) : op \in ViewOps}

\* Item names to look up: those of Items, and one that is absolute, nested
\* and not normalized.
ReadItems == Items \cup {<<Sep, "a", Sep, Sep, "b">>}

ReadCalls ==
    {ReadArgs(op, item, 0) :
        op \in {"_item_path", "__contains__", "__getitem__"}, item \in ReadItems}
    \cup {ReadArgs(op, <<>>, 0) : op \in {"__iter__", "__len__"}}
    \cup {ReadArgs(op, <<>>, stop) : op \in VisitOps, stop \in 0..MaxStop}

\* The keys a store may hold besides the root group's: a stray key at the
\* root, and either sentinel, or both, at "a" and "a/b", and a group "b".
StrayKey == <<chunk_key>>
OptionalKeys ==
    {StrayKey, group_key(<<"a">>), array_key(<<"a">>), group_key(<<"b">>),
     group_key(<<"a", Sep, "b">>), array_key(<<"a", Sep, "b">>)}

StoreOf(present) ==
    [k \in present \cup DOMAIN RootStore |->
        IF k[Len(k)] = group_meta_key THEN GroupMeta
        ELSE IF k[Len(k)] = array_meta_key THEN ArrayMeta(<<1>>, "i4")
        ELSE ChunkBytes]

Stores == {StoreOf(present) : present \in SUBSET OptionalKeys}

Paths == {<<>>, <<"a">>, <<"b">>, <<"a", Sep, "b">>}

\* A handle of the root group of any of the stores.
InitStore ==
    /\ store \in Stores
    /\ chunk_store = EmptyStore
    /\ locks = {}
    /\ pc = [t \in Threads |-> "idle"]
    /\ call = [t \in Threads |-> NoCall]
    /\ result = [t \in Threads |-> NoResult]
    /\ repeat = [t \in Threads |-> FALSE]
    /\ pending = [t \in Threads |-> NoPending]
    /\ handle = [t \in Threads |-> Group(store, <<>>, FALSE, NoStore, NoSynchronizer)]

NextStore ==
    \/ \E path \in Paths : Open(Main, path, FALSE)
    \/ \E args \in ReadCalls : ReadCall(Main, args)

StoreSpec == InitStore /\ [][NextStore]_vars

----------------------------------------------------------------------------
(* Two handles of one store: thread Main mutates through its handle and    *)
(* thread Other reads through a handle of its own, one whole call at a     *)
(* time.                                                                   *)

Other == 2

SharedCalls ==
    GroupCalls({<<"a">>, <<"a", Sep, "b">>})
    \cup ShapeCalls({"create_dataset", "require_dataset", "create"}, {<<"a">>},
                    {IntShape(1)}, {"i4"}, {FALSE})
    \cup DataCalls({"array", "__setitem__"}, {<<"a">>}, {IntShape(1)}, {"i4"}, {FALSE})

SharedReads ==
    {ReadArgs(op, item, 0) :
        op \in {"_item_path", "__contains__", "__getitem__"},
        item \in {<<"a">>, <<"a", Sep, "b">>, <<Sep, "a">>}}
    \cup {ReadArgs(op, <<>>, 0) : op \in {"__iter__", "__len__"} \cup VisitOps}

InitShared ==
    /\ InitStores
    /\ handle = [t \in Threads |-> RootHandle(NoStore, NoSynchronizer)]

NextShared ==
    \/ \E args \in SharedCalls : Call(Main, args)
    \/ \E path \in {<<>>, <<"a">>} : Open(Other, path, FALSE)
    \/ \E args \in SharedReads : ReadCall(Other, args)

SharedSpec == InitShared /\ [][NextShared]_vars

----------------------------------------------------------------------------
(* open_group: a store is made to hold a group at a path, or required to   *)
(* hold one, as the mode says, and a handle of the path is returned.       *)

Modes == {"r", "r+", "a", "w", "w-", "x"}

\* Mode 'w' initializing without overwrite.
open_group_w_keeping(w, mode, path, sync) ==
    LET p == normalize_storage_path(path)
        ensured ==
            IF mode \in {"r", "r+"}
            THEN (IF contains_array(w.store, p) THEN raise(w, "ContainsArrayError")
                  ELSE IF ~contains_group(w.store, p) THEN raise(w, "GroupNotFoundError")
                  ELSE w)
            ELSE IF mode = "a"
            THEN (IF contains_array(w.store, p) THEN raise(w, "ContainsArrayError")
                  ELSE IF ~contains_group(w.store, p) THEN init_group(w, p, NoStore, FALSE)
                  ELSE w)
            ELSE init_group(w, p, NoStore, FALSE)
    IN Then(ensured,
            LAMBDA w1 : Outcome(w1, Group(w1.store, p, mode = "r", NoStore, sync)))

\* zarr.hierarchy.open_group
open_group(w, mode, path, sync) ==
    LET p == normalize_storage_path(path)
        ensured ==
            IF mode \in {"r", "r+"}
            THEN (IF contains_array(w.store, p) THEN raise(w, "ContainsArrayError")
                  ELSE IF ~contains_group(w.store, p) THEN raise(w, "GroupNotFoundError")
                  ELSE w)
            ELSE IF mode = "w"
            THEN init_group(w, p, NoStore, TRUE)
            ELSE IF mode = "a"
            THEN (IF contains_array(w.store, p) THEN raise(w, "ContainsArrayError")
                  ELSE IF ~contains_group(w.store, p) THEN init_group(w, p, NoStore, FALSE)
                  ELSE w)
            ELSE IF mode \in {"w-", "x"}
            THEN (IF contains_array(w.store, p) THEN raise(w, "ContainsArrayError")
                  ELSE IF contains_group(w.store, p) THEN raise(w, "ContainsGroupError")
                  ELSE init_group(w, p, NoStore, FALSE))
            ELSE w
    IN Then(ensured,
            LAMBDA w1 : Outcome(w1, Group(w1.store, p, mode = "r", NoStore, sync)))

OpenArgs(mode, path) == [op |-> "open_group", item |-> path, mode |-> mode]

OpenCalls == {OpenArgs(mode, path) : mode \in Modes, path \in Paths}

\* A whole call of open_group on the store by thread t, which keeps the
\* handle it gets.
OpenGroup(t, args) ==
    /\ pc[t] = "idle"
    /\ \E out \in {open_group(World(store, chunk_store), args.mode, args.item,
                                NoSynchronizer)} :
       /\ store' = out.store
       /\ chunk_store' = out.chunk
       /\ call' = [call EXCEPT ![t] = args]
       /\ repeat' = [repeat EXCEPT ![t] = FALSE]
       /\ result' = [result EXCEPT ![t] = out.result]
       /\ handle' = [handle EXCEPT ![t] = IF out.result.kind = "Group" THEN out.result ELSE @]
       /\ UNCHANGED <<locks, pc, pending>>

NextOpen == \E args \in OpenCalls : OpenGroup(Main, args)

OpenSpec == InitStore /\ [][NextOpen]_vars

----------------------------------------------------------------------------
(* Threads.  A call of a mutating method is Group._write_op around the     *)
(* method's function f: the read-only check, then f, inside the lock of    *)
(* the handle's synchronizer if it has one.  Other threads run between     *)
(* these steps.                                                            *)

Synchronizer == "sync"

\* The `with` statement of _write_op: the lock is taken when it is free.
_enter(L, key, t) == L \cup {<<key, t>>}

\* The lock given back only after f returned: an exception keeps it.
_exit_on_return(L, key, t, r) == IF r.kind = "Error" THEN L ELSE L \ {<<key, t>>}

\* The `with` statement of _write_op: the lock is given back when the block
\* ends, whether f returned r or raised it.
_exit(L, key, t, r) == L \ {<<key, t>>}

held(L, key) == \E l \in L : l[1] = key

Synchronized(t) == handle[t].synchronizer # NoSynchronizer

\* The methods that call _write_op, and __setitem__, which calls array.
Mutators ==
    {"create_group", "require_group", "create_dataset", "require_dataset", "create",
     "array", "__setitem__", "__delitem__"}

\* The function f that the method op hands to _write_op; __setitem__ hands
\* none itself and calls array, which does.
_f(op) ==
    CASE op = "create_group" -> "_create_group_nosync"
      [] op = "require_group" -> "_require_group_nosync"
      [] op = "create_dataset" -> "_create_dataset_nosync"
      [] op = "require_dataset" -> "_require_dataset_nosync"
      [] op = "create" -> "_create_nosync"
      [] op \in {"array", "__setitem__"} -> "_array_nosync"
      [] op = "__delitem__" -> "_delitem_nosync"

\* A fallback of require_dataset to the public create_dataset.
_calls_create_dataset(f) ==
    IF f = "_require_dataset_nosync" THEN {"_item_path", "create_dataset"}
    ELSE {"_item_path"}

\* The methods of the handle that the function f calls.
_calls(f) ==
    IF f = "_require_dataset_nosync" THEN {"_item_path", "_create_dataset_nosync"}
    ELSE {"_item_path"}

\* _write_op up to f or the lock: the guard condition, then the branch on
\* the synchronizer.
Begin(t, args) ==
    /\ pc[t] = "idle"
    /\ call' = [call EXCEPT ![t] = args]
    /\ repeat' = [repeat EXCEPT ![t] = (args = call[t])]
    /\ IF _read_only_guard(handle[t])
       THEN /\ result' = [result EXCEPT ![t] = Error("ReadOnlyError")]
            /\ pc' = pc
       ELSE /\ result' = [result EXCEPT ![t] = NoResult]
            /\ pc' = [pc EXCEPT ![t] = IF handle[t].synchronizer = NoSynchronizer
                                       THEN "unguarded" ELSE "acquire"]
    /\ UNCHANGED <<store, chunk_store, locks, handle, pending>>

\* Entering the with block whether the lock is free or not.
Acquire_without_waiting(t) ==
    /\ pc[t] = "acquire"
    /\ locks' = _enter(locks, _lock_key(handle[t]), t)
    /\ pc' = [pc EXCEPT ![t] = "guarded"]
    /\ UNCHANGED <<store, chunk_store, handle, call, result, repeat, pending>>

\* with self._synchronizer[group_meta_key]: entering waits for the lock.
Acquire(t) ==
    /\ pc[t] = "acquire"
    /\ ~held(locks, _lock_key(handle[t]))
    /\ locks' = _enter(locks, _lock_key(handle[t]), t)
    /\ pc' = [pc EXCEPT ![t] = "guarded"]
    /\ UNCHANGED <<store, chunk_store, handle, call, result, repeat, pending>>

\* f(*args, **kwargs), with the lock held or with no synchronizer.
Run(t) ==
    /\ pc[t] \in {"guarded", "unguarded"}
    /\ \E out \in {_nosync(handle[t], World(store, chunk_store), call[t])} :
       /\ store' = out.store
       /\ chunk_store' = out.chunk
       /\ result' = [result EXCEPT ![t] = out.result]
       /\ pc' = [pc EXCEPT ![t] = IF pc[t] = "guarded" THEN "release" ELSE "idle"]
       /\ UNCHANGED <<locks, handle, call, repeat, pending>>

\* Leaving the with block, by return or by exception.
Release(t) ==
    /\ pc[t] = "release"
    /\ locks' = _exit(locks, _lock_key(handle[t]), t, result[t])
    /\ pc' = [pc EXCEPT ![t] = IF pending[t].rest # <<>> THEN "next" ELSE "idle"]
    /\ UNCHANGED <<store, chunk_store, handle, call, result, repeat, pending>>

\* What the threads call: each method on the member "a" of their handle.
ThreadCalls ==
    {Args("create_group", <<"a">>, FALSE, NoShape, "", FALSE, NoData),
     Args("require_group", <<"a">>, FALSE, NoShape, "", FALSE, NoData),
     Args("create_dataset", <<"a">>, FALSE, IntShape(1), "i4", FALSE, NoData),
     Args("require_dataset", <<"a">>, FALSE, IntShape(2), "i4", FALSE, NoData),
     Args("create", <<"a">>, TRUE, IntShape(1), "i4", FALSE, NoData),
     Args("array", <<"a">>, TRUE, NoShape, "", FALSE, DataOf(IntShape(1), "i4")),
     Args("__setitem__", <<"a">>, FALSE, NoShape, "", FALSE, DataOf(IntShape(1), "i4")),
     Args("__delitem__", <<"a">>, FALSE, NoShape, "", FALSE, NoData)}

\* Thread 1 has a synchronizer; every other thread shares it or has none.
InitThreads ==
    /\ InitStores
    /\ \E syncs \in [Threads -> {Synchronizer, NoSynchronizer}] :
           /\ syncs[Main] = Synchronizer
           /\ handle = [t \in Threads |-> RootHandle(NoStore, syncs[t])]

NextThreads ==
    \E t \in Threads :
        \/ \E path \in {<<>>, <<"a">>}, read_only \in BOOLEAN : Open(t, path, read_only)
        \/ \E args \in ThreadCalls : Begin(t, args)
        \/ Acquire(t)
        \/ Run(t)
        \/ Release(t)

ThreadSpec == InitThreads /\ [][NextThreads]_vars

\* The calls of the threads that wait for each other: one that creates, one
\* that fails on what the first created, one that deletes.
FairCalls == {args \in ThreadCalls : args.op \in {"create_group", "__setitem__", "__delitem__"}}

NextFairThreads ==
    \E t \in Threads :
        \/ \E path \in {<<>>, <<"a">>} : Open(t, path, FALSE)
        \/ \E args \in FairCalls : Begin(t, args)
        \/ Acquire(t)
        \/ Run(t)
        \/ Release(t)

\* Every thread keeps running, and the lock is fair: a thread that waits for
\* it gets it.
FairThreadSpec ==
    /\ InitThreads
    /\ [][NextFairThreads]_vars
    /\ \A t \in Threads : WF_vars(Run(t)) /\ WF_vars(Release(t)) /\ SF_vars(Acquire(t))

----------------------------------------------------------------------------
(* Store updates one at a time.  The store is a mapping that other threads *)
(* read and write between any two of a method's updates of it: f is its    *)
(* decision, taken on the store as f finds it, then one deletion or        *)
(* assignment of a key per step, then its return.                          *)

StoreOp(target, del, key, value) ==
    [target |-> target, del |-> del, key |-> key, value |-> value]

\* The keys K, shortest first, a chunk after the metadata beside it.
RECURSIVE ByLength(_)
ByLength(K) ==
    IF K = {} THEN <<>>
    ELSE LET first == CHOOSE k \in K : \A j \in K :
                          \/ Len(k) < Len(j)
                          \/ Len(k) = Len(j) /\ (k[Len(k)] = chunk_key => j[Len(j)] = chunk_key)
         IN <<first>> \o ByLength(K \ {first})

Reverse(seq) == [i \in 1..Len(seq) |-> seq[Len(seq) + 1 - i]]

\* rmdir: the keys of S that T has not, the deepest first.
Deletions(target, S, T) ==
    [i \in 1..Cardinality(DOMAIN S \ DOMAIN T) |->
        StoreOp(target, TRUE, Reverse(ByLength(DOMAIN S \ DOMAIN T))[i], ChunkBytes)]

\* The assignments that make T of S: a parent's metadata before a child's,
\* an array's metadata before its chunk.
Assignments(target, S, T) ==
    LET changed == {k \in DOMAIN T : k \notin DOMAIN S \/ S[k] # T[k]}
    IN [i \in 1..Cardinality(changed) |->
           StoreOp(target, FALSE, ByLength(changed)[i], T[ByLength(changed)[i]])]

\* The updates by which f takes the stores S and C to its outcome.
Updates(S, C, out) ==
    Deletions("store", S, out.store) \o Deletions("chunk_store", C, out.chunk)
    \o Assignments("store", S, out.store) \o Assignments("chunk_store", C, out.chunk)

\* One update of a mapping.
update(S, u) ==
    IF u.del THEN [k \in DOMAIN S \ {u.key} |-> S[k]] ELSE setitem(S, u.key, u.value)

\* f up to its first update of the store, or up to the _write_op of a
\* mutating method of the handle that f calls.
Check(t) ==
    /\ pc[t] \in {"guarded", "unguarded"}
    /\ \E out \in {_nosync(handle[t], World(store, chunk_store), call[t])} :
           pending' = [pending EXCEPT ![t] =
                          Pending(Updates(store, chunk_store, out), @.rest, out.result)]
    /\ pc' = [pc EXCEPT ![t] = IF Synchronized(t) /\ _calls(_f(call[t].op)) \cap Mutators # {}
                               THEN "acquire" ELSE "writing"]
    /\ UNCHANGED <<store, chunk_store, locks, handle, call, result, repeat>>

\* One update of f.
Write(t) ==
    /\ pc[t] = "writing"
    /\ pending[t].ops # <<>>
    /\ \E u \in {Head(pending[t].ops)} :
           /\ store' = IF u.target = "store" THEN update(store, u) ELSE store
           /\ chunk_store' = IF u.target = "chunk_store" THEN update(chunk_store, u)
                             ELSE chunk_store
    /\ pending' = [pending EXCEPT ![t].ops = Tail(@)]
    /\ UNCHANGED <<locks, pc, handle, call, result, repeat>>

\* f returns or raises; an exception ends a call for several names.
Return(t) ==
    /\ pc[t] = "writing"
    /\ pending[t].ops = <<>>
    /\ result' = [result EXCEPT ![t] = pending[t].result]
    /\ pending' = [pending EXCEPT ![t] =
                       Pending(<<>>, IF pending[t].result.kind = "Error" THEN <<>> ELSE @.rest,
                               NoResult)]
    /\ pc' = [pc EXCEPT ![t] = IF Synchronized(t) THEN "release"
                               ELSE IF pending'[t].rest # <<>> THEN "next" ELSE "idle"]
    /\ UNCHANGED <<store, chunk_store, locks, handle, call, repeat>>

\* What the writer calls while another thread reads.
WriterCalls ==
    {Args("create_group", <<"a", Sep, "b">>, FALSE, NoShape, "", FALSE, NoData),
     Args("create_dataset", <<"a">>, TRUE, IntShape(1), "i4", FALSE, NoData),
     Args("__setitem__", <<"b">>, FALSE, NoShape, "", FALSE, DataOf(IntShape(1), "i4")),
     Args("__delitem__", <<"a">>, FALSE, NoShape, "", FALSE, NoData)}

ReaderCalls ==
    {ReadArgs(op, item, 0) :
        op \in {"_item_path", "__contains__", "__getitem__"}, item \in {<<"a">>, <<"a", Sep, "b">>}}
    \cup {ReadArgs(op, <<>>, 0) : op \in {"__iter__", "__len__"}}
    \cup {ReadArgs(op, <<>>, 0) : op \in VisitOps}
    \cup ViewCalls

\* Both threads have a handle of the root with the one synchronizer.
InitReaders ==
    /\ InitStores
    /\ handle = [t \in Threads |-> RootHandle(NoStore, Synchronizer)]

\* Main mutates, Other reads.
NextReaders ==
    \/ \E args \in WriterCalls : Begin(Main, args)
    \/ Acquire(Main)
    \/ Check(Main)
    \/ Write(Main)
    \/ Return(Main)
    \/ Release(Main)
    \/ \E args \in ReaderCalls : ReadCall(Other, args)
    \/ \E args \in ReaderCalls : ViewCall(Other, args)

ReadersSpec == InitReaders /\ [][NextReaders]_vars

----------------------------------------------------------------------------
(* Claims about the mutation guard. *)

InGuard(t) == pc[t] \in {"guarded", "release"}

\* C1: two threads whose handles share a synchronizer are never both inside
\* a guarded section, whatever the paths of their handles and whatever they
\* call; a thread inside one holds the lock of its handle's synchronizer.
C1_MutualExclusion ==
    /\ \A t1, t2 \in Threads :
           (t1 # t2 /\ InGuard(t1) /\ InGuard(t2))
               => handle[t1].synchronizer # handle[t2].synchronizer
    /\ \A t \in Threads : InGuard(t) => <<_lock_key(handle[t]), t>> \in locks

\* One thread is inside its guarded section while another, with a handle of
\* another path and a call of another method, waits for the same lock.
C1_Witness ==
    \E t1, t2 \in Threads :
        /\ InGuard(t1) /\ pc[t2] = "acquire"
        /\ handle[t1].synchronizer = handle[t2].synchronizer
        /\ handle[t1].path # handle[t2].path
        /\ call[t1].op # call[t2].op

\* C2: a call of a mutating method through a read-only handle ends at once
\* with ReadOnlyError: the thread never waits for or takes a lock, f does not
\* run, and the store and the chunk store are what they were.
C2_ReadOnlyRefused ==
    [][\A t \in Threads :
          (/\ handle[t].read_only
           /\ call'[t].op \in MutatingOps
           /\ <<call'[t], result'[t], pc'[t]>> # <<call[t], result[t], pc[t]>>)
          => (/\ pc[t] = "idle" /\ pc'[t] = "idle"
              /\ result'[t] = Error("ReadOnlyError")
              /\ UNCHANGED <<store, chunk_store, locks>>)]_vars

\* __delitem__ of an existing member was refused through a read-only handle.
C2_Witness ==
    \E t \in Threads :
        /\ handle[t].read_only
        /\ call[t].op = "__delitem__"
        /\ result[t] = Error("ReadOnlyError")
        /\ contains_array(store, _item_path(handle[t], call[t].item))

\* C3: a lock is held only by a thread inside its guarded section, so it is
\* free whenever no mutation is in progress, also after f raised; and under
\* a fair lock every thread that waits for it enters its guarded section.
C3_LockReleased ==
    /\ [](\A l \in locks : InGuard(l[2]) /\ l[1] = _lock_key(handle[l[2]]))
    /\ \A t \in Threads : (pc[t] = "acquire") ~> (pc[t] = "guarded")

\* create_group on an array path failed inside the lock, the lock was given
\* back, and another thread of the same synchronizer is now inside.
C3_Witness ==
    \E t1, t2 \in Threads :
        /\ pc[t1] = "idle" /\ Synchronized(t1)
        /\ call[t1].op = "create_group"
        /\ result[t1] = Error("ContainsArrayError")
        /\ handle[t1].synchronizer = handle[t2].synchronizer
        /\ pc[t2] = "guarded"

----------------------------------------------------------------------------
(* Claims about the namespace, for one caller: a step of Spec is one call  *)
(* of thread Main, whose arguments are call' and whose outcome is result'. *)

\* The path a store key belongs to: the key without its leaf name.
dirname(key) == IF Len(key) = 1 THEN <<>> ELSE SubSeq(key, 1, Len(key) - 2)

\* The names that the calls of Spec pass.
NamespaceItems == {args.item : args \in NamespaceCalls}

\* At the path or below it.
within(p, path) == p = path \/ startswith(p, _path_to_prefix(path))

\* C4: no path has both the array sentinel and the group sentinel; the path
\* a group method just returned a Group for is a group and not an array, and
\* the path an array method just created or returned an array at is an array
\* and not a group.
C4_OneSentinel ==
    /\ \A k \in DOMAIN store :
           ~(contains_array(store, dirname(k)) /\ contains_group(store, dirname(k)))
    /\ (call[Main].op \in {"create_group", "require_group"} /\ result[Main].kind = "Group")
           => (/\ contains_group(store, result[Main].path)
               /\ ~contains_array(store, result[Main].path))
    /\ (call[Main].op \in {"create_dataset", "require_dataset"}
            /\ result[Main].kind = "Array")
           => (/\ contains_array(store, result[Main].path)
               /\ ~contains_group(store, result[Main].path))
    /\ (call[Main].op = "__setitem__" /\ result[Main] = ReturnedNone)
           => (/\ contains_array(store, _item_path(handle[Main], call[Main].item))
               /\ ~contains_group(store, _item_path(handle[Main], call[Main].item)))

\* create_dataset("/", overwrite=True) made the root group an array.
C4_Witness ==
    /\ call[Main].op = "create_dataset" /\ call[Main].overwrite
    /\ result[Main].kind = "Array" /\ result[Main].path = <<>>
    /\ contains_array(store, <<>>) /\ ~contains_group(store, <<>>)

\* C5: __delitem__ of a member that is a group or an array returns with no
\* key at or below the resolved path left in the store, and no name that
\* resolves to the path or below it is a member any more; __delitem__ of a
\* path that is neither raises KeyError and the stores are what they were.
C5_DeleteSubtree ==
    [][call'[Main].op = "__delitem__" =>
        LET h == handle[Main]
            path == _item_path(h, call'[Main].item)
        IN IF contains_array(store, path) \/ contains_group(store, path)
           THEN /\ result'[Main] = ReturnedNone
                /\ \A k \in DOMAIN store' : ~startswith(k, _path_to_prefix(path))
                /\ \A k \in DOMAIN store : ~within(dirname(k), path) => k \in DOMAIN store'
                /\ \A item \in NamespaceItems :
                       within(_item_path(h, item), path) => ~__contains__(h, store', item)
           ELSE /\ result'[Main] = Error("KeyError")
                /\ UNCHANGED <<store, chunk_store>>]_vars

\* A group was deleted together with an array below it: the array's chunk is
\* still in the separate chunk store.
C5_Witness ==
    /\ call[Main].op = "__delitem__" /\ result[Main] = ReturnedNone
    /\ LET path == _item_path(handle[Main], call[Main].item)
       IN /\ path # <<>>
          /\ \E k \in DOMAIN chunk_store :
                 dirname(k) # path /\ within(dirname(k), path)
          /\ \A k \in DOMAIN store : ~within(dirname(k), path)

----------------------------------------------------------------------------
(* Claims about require_dataset, for one caller of DatasetSpec.            *)

\* C6: require_dataset with exact=False and the stored shape, on a path that
\* holds an array, returns the array when the stored element type is safely
\* convertible to the requested one and raises TypeError when it is not.
C6_StoredConvertibleToRequested ==
    [][(/\ call'[Main].op = "require_dataset" /\ ~call'[Main].exact
        /\ contains_array(store, _item_path(handle[Main], call'[Main].item)))
       => LET stored == store[array_key(_item_path(handle[Main], call'[Main].item))]
          IN normalize_shape(call'[Main].shape) = stored.shape
                 => IF can_cast(stored.dtype, call'[Main].dtype)
                    THEN result'[Main].kind = "Array"
                    ELSE result'[Main] = Error("TypeError")]_vars

\* C7: a require_dataset call with the arguments of the call before it, which
\* returned an array, returns the same handle and writes nothing; a
\* require_dataset call whose shape is not the stored array's raises
\* TypeError and writes nothing.
C7_RequireDatasetTwice ==
    [][call'[Main].op = "require_dataset" =>
        LET path == _item_path(handle[Main], call'[Main].item)
        IN /\ (call'[Main] = call[Main] /\ result[Main].kind = "Array")
                  => (/\ result'[Main] = result[Main]
                      /\ result'[Main].path = path
                      /\ UNCHANGED <<store, chunk_store>>)
           /\ (/\ contains_array(store, path)
               /\ normalize_shape(call'[Main].shape) # store[array_key(path)].shape)
                  => (/\ result'[Main] = Error("TypeError")
                      /\ UNCHANGED <<store, chunk_store>>)]_vars

\* The second of two equal require_dataset calls returned the array that the
\* first created.
C7_Witness ==
    /\ repeat[Main] /\ call[Main].op = "require_dataset"
    /\ result[Main].kind = "Array"
    /\ result[Main].meta = ArrayMeta(normalize_shape(call[Main].shape), call[Main].dtype)

----------------------------------------------------------------------------
(* Claims about create_group and require_group, for one caller of Spec.    *)

\* The handle a group method returns for a path that is a group.
GroupHandle(h, path) ==
    Returned("Group", path, h.read_only, h.chunk_store, h.synchronizer, GroupMeta, "")

\* The first n segments of an item name, as a name of the same kind.
ItemPrefix(item, n) ==
    (IF item # <<>> /\ item[1] = Sep THEN <<Sep>> ELSE <<>>)
        \o join(SubSeq(split(item), 1, n))

\* C8: require_group with overwrite=False on a path that is a group already
\* writes nothing and returns the handle of that path, so a call with the
\* arguments of the call before it returns an equal handle and the members
\* of the group are still there; on a path that is not a group, a call that
\* returns has made it one.
C8_RequireGroupOnce ==
    [][(call'[Main].op = "require_group" /\ ~call'[Main].overwrite) =>
        LET h == handle[Main]
            path == _item_path(h, call'[Main].item)
        IN /\ contains_group(store, path)
                  => (/\ UNCHANGED <<store, chunk_store>>
                      /\ result'[Main] = GroupHandle(h, path))
           /\ (call'[Main] = call[Main] /\ result[Main].kind = "Group")
                  => (/\ UNCHANGED <<store, chunk_store>>
                      /\ result'[Main] = result[Main])
           /\ (~contains_group(store, path) /\ result'[Main].kind = "Group")
                  => (/\ contains_group(store', path)
                      /\ group_key(path) \notin DOMAIN store)]_vars

\* require_group("a") returned the group "a", which had a member already.
C8_Witness ==
    /\ call[Main].op = "require_group" /\ ~call[Main].overwrite
    /\ result[Main] = GroupHandle(handle[Main], <<"a">>)
    /\ \E k \in DOMAIN store : dirname(k) # <<"a">> /\ within(dirname(k), <<"a">>)

\* C9: when create_group returns, every prefix of the resolved path is a
\* group and not an array, and a lookup through the handle of every prefix
\* of the name returns a Group.
C9_CreateGroupPrefixes ==
    [][(call'[Main].op = "create_group" /\ result'[Main].kind = "Group") =>
        LET h == handle[Main]
            item == call'[Main].item
            segments == split(_item_path(h, item))
        IN /\ \A n \in 1..Len(segments) :
                  /\ contains_group(store', join(SubSeq(segments, 1, n)))
                  /\ ~contains_array(store', join(SubSeq(segments, 1, n)))
           /\ \A n \in 1..Len(split(item)) :
                  __getitem__(h, store', ItemPrefix(item, n)).kind = "Group"]_vars

\* create_group("a/b/a") returned the group of that path.
C9_Witness ==
    /\ call[Main].op = "create_group" /\ Len(split(call[Main].item)) = 3
    /\ result[Main] = GroupHandle(handle[Main], <<"a", Sep, "b", Sep, "a">>)
    /\ \A n \in 1..3 : __getitem__(handle[Main], store, ItemPrefix(call[Main].item, n)).kind
                           = "Group"

\* C10: create_group with overwrite=False on a path that holds an array
\* raises ContainsArrayError, returns no handle and writes nothing: the path
\* still holds the array.
C10_CreateGroupOnArray ==
    [][(/\ call'[Main].op = "create_group" /\ ~call'[Main].overwrite
        /\ contains_array(store, _item_path(handle[Main], call'[Main].item)))
       => (/\ result'[Main] = Error("ContainsArrayError")
           /\ UNCHANGED <<store, chunk_store>>
           /\ contains_array(store', _item_path(handle[Main], call'[Main].item))
           /\ ~contains_group(store', _item_path(handle[Main], call'[Main].item)))]_vars

\* create_group("a/b") was refused because "a/b" holds an array.
C10_Witness ==
    /\ call[Main].op = "create_group" /\ ~call[Main].overwrite
    /\ result[Main] = Error("ContainsArrayError")
    /\ Len(split(call[Main].item)) = 2
    /\ contains_array(store, _item_path(handle[Main], call[Main].item))

----------------------------------------------------------------------------
(* Name resolution, iteration, traversal and lookup.                       *)

\* C11: an item name that begins with the separator resolves to its own
\* normalization, whatever the handle's prefix; any other name resolves to
\* its normalization through the root handle and to the handle's path, a
\* separator and its normalization through any other handle; resolving a
\* name changes nothing in the store.
C11_ItemPath ==
    [][call'[Main].op = "_item_path" =>
          LET N == call'[Main].item
              P == handle[Main].path
          IN /\ result'[Main].value =
                    IF N[1] = Sep THEN join(split(N))
                    ELSE IF P = <<>> THEN join(split(N))
                    ELSE P \o <<Sep>> \o join(split(N))
             /\ UNCHANGED <<store, chunk_store>>]_vars

\* An absolute, nested name that is not normalized, resolved through a
\* handle of "a".
C11_Witness ==
    /\ call[Main].op = "_item_path"
    /\ call[Main].item = <<Sep, "a", Sep, Sep, "b">>
    /\ handle[Main].path = <<"a">>
    /\ result[Main].value = <<"a", Sep, "b">>

\* The immediate children of the handle's path that are arrays or groups.
Members(h, S) ==
    {n \in Range(Alphabet) : \/ array_key(h.path \o <<Sep, n>>) \in DOMAIN S
                             \/ group_key(h.path \o <<Sep, n>>) \in DOMAIN S}

\* Ascending: no name is followed by itself or by a name that sorts before it.
Ascending(seq) ==
    \A i, j \in 1..Len(seq) :
        i < j => \E m, n \in 1..Len(Alphabet) :
                    m < n /\ Alphabet[m] = seq[i] /\ Alphabet[n] = seq[j]

\* C12: iterating a handle yields exactly the names of the immediate
\* children that are arrays or groups, each once and in ascending order,
\* in whatever order the store lists its keys, and the length of the handle
\* is the number of names the iteration yields.
C12_Iteration ==
    [][/\ call'[Main].op = "__iter__" =>
              /\ Range(result'[Main].value) = Members(handle[Main], store)
              /\ Ascending(result'[Main].value)
       /\ call'[Main].op = "__len__" =>
              result'[Main].value = Cardinality(Members(handle[Main], store))]_vars

\* The root of a store with a stray key and the members "a" and "b".
C12_Witness ==
    /\ call[Main].op = "__iter__"
    /\ handle[Main].path = <<>>
    /\ StrayKey \in DOMAIN store
    /\ result[Main].value = <<"a", "b">>

\* The paths below P that a traversal from P reaches: members whose every
\* ancestor below P is a group that a lookup returns as a Group.
Descendants(P, S) ==
    {q \in {dirname(k) : k \in DOMAIN S} :
        /\ q # P /\ within(q, P)
        /\ array_key(q) \in DOMAIN S \/ group_key(q) \in DOMAIN S
        /\ \A n \in 1..(Len(split(q)) - 1) :
               LET r == join(SubSeq(split(q), 1, n))
               IN (r # P /\ within(r, P)) =>
                      group_key(r) \in DOMAIN S /\ array_key(r) \notin DOMAIN S}

\* The path q, below P, as a name relative to P.
Relative(P, q) == IF P = <<>> THEN q ELSE SubSeq(q, Len(P) + 2, Len(q))

\* Depth-first pre-order with ascending siblings: p comes before q when p
\* is an ancestor of q, or when at the first segment where they differ that
\* of p sorts before that of q.
PreOrder(p, q) ==
    LET sp == split(p)
        sq == split(q)
    IN \E i \in 1..Len(sq) :
          /\ \A j \in 1..(i - 1) : j <= Len(sp) /\ sp[j] = sq[j]
          /\ \/ i = Len(sp) + 1
             \/ i <= Len(sp) /\ Ascending(<<sp[i], sq[i]>>)

\* The object a lookup returns for a member path.
Member(h, S, q) ==
    Returned(IF array_key(q) \in DOMAIN S THEN "Array" ELSE "Group", q, h.read_only,
             h.chunk_store, h.synchronizer,
             IF array_key(q) \in DOMAIN S THEN S[array_key(q)] ELSE S[group_key(q)], "")

\* The relative names of the nodes that the calls of func were made for.
Visited(op, P, calls) ==
    [i \in 1..Len(calls) |->
        IF op = "visitvalues" THEN Relative(P, calls[i].path)
        ELSE IF op = "visititems" THEN calls[i][1]
        ELSE calls[i]]

\* C13: a traversal whose function returns None every time calls it once
\* for every descendant of the handle and never for the handle itself,
\* depth-first in pre-order with the siblings ascending; the name visit,
\* visitkeys and visititems pass is relative to the handle and has no
\* leading separator, through the root handle and any other alike, and the
\* object visititems and visitvalues pass is the one at that name.
C13_Traversal ==
    [][(call'[Main].op \in VisitOps /\ result'[Main].value.returned = NoneValue) =>
          LET P == handle[Main].path
              op == call'[Main].op
              calls == result'[Main].value.calls
              names == Visited(op, P, calls)
          IN /\ Range(names) = {Relative(P, q) : q \in Descendants(P, store)}
             /\ \A i, j \in 1..Len(names) : i < j => PreOrder(names[i], names[j])
             /\ \A i \in 1..Len(names) : names[i] # <<>> /\ names[i][1] # Sep
             /\ \A i \in 1..Len(names) :
                    LET q == _key_prefix(handle[Main]) \o names[i]
                    IN /\ op = "visitvalues" => calls[i] = Member(handle[Main], store, q)
                       /\ op = "visititems" => calls[i][2] = Member(handle[Main], store, q)]_vars

\* A full traversal by name from the root of a group "a", its member "a/b"
\* and a group "b".
C13_Witness ==
    /\ call[Main].op = "visit"
    /\ call[Main].stop = 0
    /\ handle[Main].path = <<>>
    /\ result[Main].value.calls = << <<"a">>, <<"a", Sep, "b">>, <<"b">> >>

\* C14: when the function returns a value other than None at the k-th node,
\* the traversal stops there: the function has been called exactly k times,
\* for the first k nodes of the order, and the traversal returns that value;
\* when the function returns None at every node, it is called for every
\* descendant and the traversal returns None.
C14_ShortCircuit ==
    [][call'[Main].op \in VisitOps =>
          LET P == handle[Main].path
              k == call'[Main].stop
              out == result'[Main].value
              names == Visited(call'[Main].op, P, out.calls)
              all == {Relative(P, q) : q \in Descendants(P, store)}
          IN IF k \in 1..Cardinality(all)
             THEN /\ out.returned = VisitorValue
                  /\ Len(out.calls) = k
                  /\ Range(names) \subseteq all
                  /\ \A q \in all \ Range(names) :
                         \A i \in 1..Len(names) : PreOrder(names[i], q)
             ELSE /\ out.returned = NoneValue
                  /\ Range(names) = all
                  /\ Len(out.calls) = Cardinality(all)]_vars

\* The function returns a value at the second of three nodes.
C14_Witness ==
    /\ call[Main].op = "visititems"
    /\ call[Main].stop = 2
    /\ handle[Main].path = <<>>
    /\ Cardinality(Descendants(<<>>, store)) = 3
    /\ Len(result[Main].value.calls) = 2
    /\ result[Main].value.calls[2][1] = <<"a", Sep, "b">>
    /\ result[Main].value.returned = VisitorValue

\* The path an item name stands for through a handle of the path P.
Resolved(P, item) ==
    IF item[1] = Sep \/ P = <<>> THEN join(split(item))
    ELSE P \o <<Sep>> \o join(split(item))

\* C15: looking an item up returns an Array of the resolved path when that
\* path has the array sentinel, a Group of it when it has the group sentinel
\* and not the array sentinel, and raises KeyError otherwise; the item is a
\* member of the handle exactly when the path has either sentinel, which is
\* exactly when looking it up returns a handle; so it is for relative, nested
\* and absolute names.
C15_LookupAndMembership ==
    [][LET q == Resolved(handle[Main].path, call'[Main].item)
           A == array_key(q) \in DOMAIN store
           G == group_key(q) \in DOMAIN store
       IN /\ call'[Main].op = "__getitem__" =>
                 /\ A => result'[Main].kind = "Array" /\ result'[Main].path = q
                 /\ (G /\ ~A) => result'[Main].kind = "Group" /\ result'[Main].path = q
                 /\ (~G /\ ~A) => result'[Main] = Error("KeyError")
          /\ call'[Main].op = "__contains__" =>
                 /\ result'[Main].value = (A \/ G)
                 /\ result'[Main].value =
                        (__getitem__(handle[Main], store, call'[Main].item).kind
                             \in {"Array", "Group"})]_vars

\* A nested group looked up by an absolute name through a handle of "b".
C15_Witness ==
    /\ call[Main].op = "__getitem__"
    /\ call[Main].item = <<Sep, "a", Sep, Sep, "b">>
    /\ handle[Main].path = <<"b">>
    /\ result[Main].kind = "Group"
    /\ result[Main].path = <<"a", Sep, "b">>

\* C16: when a path holds both the array sentinel and the group sentinel,
\* looking it up and constructing a handle of it raise an error of a kind of
\* its own, for a corrupt namespace: neither returns an Array or a Group,
\* and neither raises the error that says the path contains an array.
C16_CorruptReported ==
    [][LET op == call'[Main].op
           q == IF op = "Group" THEN join(split(call'[Main].item))
                ELSE Resolved(handle[Main].path, call'[Main].item)
       IN (/\ op \in {"__getitem__", "Group"}
           /\ array_key(q) \in DOMAIN store
           /\ group_key(q) \in DOMAIN store) =>
              result'[Main] = Error("CorruptNamespaceError")]_vars

\* C17: constructing a handle of a path returns a Group exactly when the
\* path has the group sentinel and not the array sentinel; on a path that is
\* an array it raises the contains-array error and on a path without group
\* metadata the group-not-found error; whatever the outcome, the stores are
\* as they were.
C17_Construction ==
    [][call'[Main].op = "Group" =>
          LET q == join(split(call'[Main].item))
              A == array_key(q) \in DOMAIN store
              G == group_key(q) \in DOMAIN store
          IN /\ (result'[Main].kind = "Group") = (G /\ ~A)
             /\ result'[Main].kind = "Group" =>
                    result'[Main].path = q /\ handle'[Main] = result'[Main]
             /\ (A /\ ~G) => result'[Main] = Error("ContainsArrayError")
             /\ (~A /\ ~G) => result'[Main] = Error("GroupNotFoundError")
             /\ UNCHANGED <<store, chunk_store>>]_vars

\* The construction of a handle of "a", which is an array, refused.
C17_Witness ==
    /\ call[Main].op = "Group"
    /\ call[Main].item = <<"a">>
    /\ array_key(<<"a">>) \in DOMAIN store
    /\ group_key(<<"a">>) \notin DOMAIN store
    /\ result[Main] = Error("ContainsArrayError")

----------------------------------------------------------------------------
(* open_group.                                                             *)

\* A group just initialized: its sentinel and nothing else at the path or
\* below it.
Fresh(S, q) ==
    /\ group_key(q) \in DOMAIN S
    /\ \A k \in DOMAIN S : within(dirname(k), q) => k = group_key(q)

\* A proper ancestor of the path is an array.
ArrayAbove(S, q) ==
    \E n \in 1..(Len(split(q)) - 1) :
        array_key(join(SubSeq(split(q), 1, n))) \in DOMAIN S

\* The mode table of open_group, on a step of Main; on an absent path below
\* an array, modes 'a' and 'w-' do what refused says they do.
ModeTable(refused) ==
    call'[Main].op = "open_group" =>
          LET mode == call'[Main].mode
              q == join(split(call'[Main].item))
              A == array_key(q) \in DOMAIN store
              G == group_key(q) \in DOMAIN store
              r == result'[Main]
              opened == r.kind = "Group" /\ r.path = q /\ r.read_only = (mode = "r")
              initialized ==
                  IF refused /\ ArrayAbove(store, q)
                  THEN r = Error("ContainsArrayError") /\ group_key(q) \notin DOMAIN store'
                  ELSE opened /\ group_key(q) \in DOMAIN store'
          IN /\ mode \in {"r", "r+"} =>
                    /\ UNCHANGED <<store, chunk_store>>
                    /\ A => r = Error("ContainsArrayError")
                    /\ (~A /\ ~G) => r = Error("GroupNotFoundError")
                    /\ (G /\ ~A) => opened
             /\ mode = "a" =>
                    /\ A => r = Error("ContainsArrayError") /\ UNCHANGED <<store, chunk_store>>
                    /\ (G /\ ~A) => opened /\ UNCHANGED <<store, chunk_store>>
                    /\ (~A /\ ~G) => initialized
             /\ mode = "w" => opened /\ Fresh(store', q)
             /\ mode = "w-" =>
                    /\ A => r = Error("ContainsArrayError") /\ UNCHANGED <<store, chunk_store>>
                    /\ (G /\ ~A) =>
                           r = Error("ContainsGroupError") /\ UNCHANGED <<store, chunk_store>>
                    /\ (~A /\ ~G) => initialized

\* C18: open_group follows its mode table whatever the path holds: 'r' and
\* 'r+' never write, and raise the contains-array error on an array and the
\* group-not-found error on an absent path; 'a' raises on an array,
\* initializes a group where none exists and otherwise changes nothing; 'w'
\* always leaves a freshly initialized group at the path; 'w-' raises where
\* an array or a group exists and otherwise initializes a group; the handle
\* returned is read-only exactly when the mode is 'r'.
C18_ModeTable == [][ModeTable(FALSE)]_vars

\* C18, amended: as above, except that on an absent path that has an array
\* among its ancestors 'a' and 'w-' raise the contains-array error and
\* initialize nothing at the path.
C18_ModeTableBelowArrays == [][ModeTable(TRUE)]_vars

\* Mode 'w-' refused on the absent path "a/b" below the array "a".
C18_Witness ==
    /\ call[Main].op = "open_group"
    /\ call[Main].mode = "w-"
    /\ call[Main].item = <<"a", Sep, "b">>
    /\ array_key(<<"a">>) \in DOMAIN store
    /\ ~contains_array(store, <<"a", Sep, "b">>)
    /\ ~contains_group(store, <<"a", Sep, "b">>)
    /\ result[Main] = Error("ContainsArrayError")

----------------------------------------------------------------------------
(* Assignment.                                                             *)

\* What the array method leaves behind when called with overwrite=True.
ArrayOverwriting(h, w, args) ==
    _write_op(h, w, [args EXCEPT !.op = "array", !.overwrite = TRUE])

\* C19: assigning data to a name is creating an array from the data with
\* overwrite=True: through a handle that is not read-only it raises nothing
\* and leaves the stores as that creation leaves them, the resolved path an
\* array and not a group, with nothing at the path or below it but the
\* array's own keys, whatever the path held before; through a read-only
\* handle it is refused like every other mutation and writes nothing.
C19_SetItem ==
    [][call'[Main].op = "__setitem__" =>
          LET h == handle[Main]
              q == Resolved(h.path, call'[Main].item)
              made == ArrayOverwriting(h, World(store, chunk_store), call'[Main])
          IN IF h.read_only
             THEN result'[Main] = Error("ReadOnlyError") /\ UNCHANGED <<store, chunk_store>>
             ELSE /\ result'[Main] = ReturnedNone
                  /\ store' = made.store /\ chunk_store' = made.chunk
                  /\ array_key(q) \in DOMAIN store'
                  /\ group_key(q) \notin DOMAIN store'
                  /\ \A k \in DOMAIN store' \cup DOMAIN chunk_store' :
                         within(dirname(k), q) =>
                             dirname(k) = q /\ k[Len(k)] \in {array_meta_key, chunk_key}]_vars

\* Through a handle of the group "a", the data assigned to "/a": the path
\* that was a group when the handle was taken is an array.
C19_Witness ==
    /\ call[Main].op = "__setitem__"
    /\ call[Main].item = <<Sep, "a">>
    /\ handle[Main].path = <<"a">>
    /\ result[Main] = ReturnedNone
    /\ contains_array(store, <<"a">>)
    /\ ~contains_group(store, <<"a">>)

----------------------------------------------------------------------------
(* Two handles of one store.                                               *)

\* What a reading method returned is what the store S holds.
Reflects(h, S, args, r) ==
    LET q == Resolved(h.path, args.item)
        A == array_key(q) \in DOMAIN S
        G == group_key(q) \in DOMAIN S
    IN CASE args.op = "__contains__" -> r.value = (A \/ G)
         [] args.op = "__getitem__" ->
                /\ A => r.kind = "Array" /\ r.path = q
                /\ (G /\ ~A) => r.kind = "Group" /\ r.path = q
                /\ (~G /\ ~A) => r = Error("KeyError")
         [] args.op = "__iter__" -> Range(r.value) = Members(h, S)
         [] args.op = "__len__" -> r.value = Cardinality(Members(h, S))
         [] args.op \in VisitOps ->
                Range(Visited(args.op, h.path, r.value.calls))
                    = {Relative(h.path, p) : p \in Descendants(h.path, S)}
         [] OTHER -> TRUE

\* C20: a handle caches no topology: whatever mutations another handle of
\* the same store has completed, an iteration, a membership test, a lookup
\* or a traversal through this handle answers from the store as those
\* mutations left it.  A step that leaves the store and Main's call as they
\* are is a step of Other.
C20_NoCachedTopology ==
    [][(/\ call'[Other] \in SharedReads
        /\ UNCHANGED <<store, chunk_store, call[Main], result[Main], repeat[Main]>>) =>
           Reflects(handle[Other], store, call'[Other], result'[Other])]_vars

\* After Main created the group "a/b" through its handle, the traversal
\* through the handle Other took of the root at the start visits "a" and
\* "a/b".
C20_Witness ==
    /\ call[Main].op = "create_group"
    /\ call[Main].item = <<"a", Sep, "b">>
    /\ result[Main].kind = "Group"
    /\ handle[Other] = RootHandle(NoStore, NoSynchronizer)
    /\ call[Other].op = "visit"
    /\ result[Other].value.calls = << <<"a">>, <<"a", Sep, "b">> >>

----------------------------------------------------------------------------
(* A lookup in steps.  Group.__getitem__ tests the store for the path and  *)
(* then constructs the Array or the Group; Group.__init__ tests the store  *)
(* for an array and then reads the group metadata.  Other threads run      *)
(* between these looks at the store.                                       *)

\* Group.__getitem__: what the path is found to be.
_found(h, S, item) ==
    IF contains_array(S, _item_path(h, item)) THEN "array"
    ELSE IF contains_group(S, _item_path(h, item)) THEN "group"
    ELSE "missing"

\* Group.__init__, guard conditions.
_init_guard(S, path) == contains_array(S, normalize_storage_path(path))

\* The metadata read whose failure is the KeyError of the store.
_init_metadata_keyerror(S, path, read_only, cs, sync) ==
    LET _path == normalize_storage_path(path)
        mkey == _path_to_prefix(_path) \o <<group_meta_key>>
    IN IF mkey \notin DOMAIN S THEN Error("KeyError")
       ELSE Returned("Group", _path, read_only, cs, sync, S[mkey], "")

\* Group.__init__, initialize metadata.
_init_metadata(S, path, read_only, cs, sync) ==
    LET _path == normalize_storage_path(path)
        mkey == _path_to_prefix(_path) \o <<group_meta_key>>
    IN IF mkey \notin DOMAIN S THEN Error("GroupNotFoundError")
       ELSE Returned("Group", _path, read_only, cs, sync, S[mkey], "")

\* The path a lookup under way is about.
LookupPath(t) == _item_path(handle[t], call[t].item)

\* g[item] up to the construction of what it found.
Lookup(t, args) ==
    /\ pc[t] = "idle"
    /\ args.op = "__getitem__"
    /\ call' = [call EXCEPT ![t] = args]
    /\ repeat' = [repeat EXCEPT ![t] = FALSE]
    /\ \E found \in {_found(handle[t], store, args.item)} :
          /\ pc' = [pc EXCEPT ![t] = CASE found = "array" -> "found_array"
                                       [] found = "group" -> "found_group"
                                       [] OTHER -> "idle"]
          /\ result' = [result EXCEPT ![t] = IF found = "missing" THEN Error("KeyError")
                                             ELSE NoResult]
    /\ UNCHANGED <<store, chunk_store, locks, handle, pending>>

\* return Array(self._store, ...)
NewArray(t) ==
    /\ pc[t] = "found_array"
    /\ result' = [result EXCEPT ![t] =
                     Array(store, LookupPath(t), handle[t].read_only, handle[t].chunk_store,
                           handle[t].synchronizer)]
    /\ pc' = [pc EXCEPT ![t] = "idle"]
    /\ UNCHANGED <<store, chunk_store, locks, handle, call, repeat, pending>>

\* return Group(self._store, ...), up to the read of the metadata.
InitGuard(t) ==
    /\ pc[t] = "found_group"
    /\ IF _init_guard(store, LookupPath(t))
       THEN /\ result' = [result EXCEPT ![t] = Error("ContainsArrayError")]
            /\ pc' = [pc EXCEPT ![t] = "idle"]
       ELSE /\ result' = result
            /\ pc' = [pc EXCEPT ![t] = "metadata"]
    /\ UNCHANGED <<store, chunk_store, locks, handle, call, repeat, pending>>

\* The read of the metadata, and the Group returned.
InitMetadata(t) ==
    /\ pc[t] = "metadata"
    /\ result' = [result EXCEPT ![t] =
                     _init_metadata(store, LookupPath(t), handle[t].read_only,
                                    handle[t].chunk_store, handle[t].synchronizer)]
    /\ pc' = [pc EXCEPT ![t] = "idle"]
    /\ UNCHANGED <<store, chunk_store, locks, handle, call, repeat, pending>>

\* What the writer calls while another thread looks members up.
RacingCalls ==
    {Args("create_group", <<"a", Sep, "b">>, FALSE, NoShape, "", FALSE, NoData),
     Args("create_group", <<"a">>, TRUE, NoShape, "", FALSE, NoData),
     Args("create_dataset", <<"a">>, TRUE, IntShape(1), "i4", FALSE, NoData),
     Args("__delitem__", <<"a">>, FALSE, NoShape, "", FALSE, NoData)}

LookupCalls == {ReadArgs("__getitem__", item, 0) : item \in {<<"a">>, <<"a", Sep, "b">>}}

\* Main mutates and Other looks members up, through handles of the root.
NextLookup ==
    \/ \E args \in RacingCalls : Begin(Main, args)
    \/ Check(Main)
    \/ Write(Main)
    \/ Return(Main)
    \/ \E args \in LookupCalls : Lookup(Other, args)
    \/ NewArray(Other)
    \/ InitGuard(Other)
    \/ InitMetadata(Other)

LookupSpec == InitShared /\ [][NextLookup]_vars

----------------------------------------------------------------------------
(* Calls for several names.  create_groups and require_groups call         *)
(* create_group and require_group for one name after the other.            *)

\* create_group or require_group of one name of several, the names in rest
\* still to come: _write_op up to f or the lock.
Each(t, args, rest) ==
    /\ call' = [call EXCEPT ![t] = args]
    /\ repeat' = [repeat EXCEPT ![t] = FALSE]
    /\ IF _read_only_guard(handle[t])
       THEN /\ result' = [result EXCEPT ![t] = Error("ReadOnlyError")]
            /\ pc' = [pc EXCEPT ![t] = "idle"]
            /\ pending' = [pending EXCEPT ![t] = NoPending]
       ELSE /\ result' = [result EXCEPT ![t] = NoResult]
            /\ pc' = [pc EXCEPT ![t] = IF handle[t].synchronizer = NoSynchronizer
                                       THEN "unguarded" ELSE "acquire"]
            /\ pending' = [pending EXCEPT ![t] = Pending(<<>>, rest, NoResult)]
    /\ UNCHANGED <<store, chunk_store, locks, handle>>

\* Group.create_groups
CreateGroups(t, names) ==
    /\ pc[t] = "idle"
    /\ Each(t, Args("create_group", Head(names), FALSE, NoShape, "", FALSE, NoData),
            Tail(names))

\* Group.require_groups
RequireGroups(t, names) ==
    /\ pc[t] = "idle"
    /\ Each(t, Args("require_group", Head(names), FALSE, NoShape, "", FALSE, NoData),
            Tail(names))

\* The next name of the generator expression.
NextName(t) ==
    /\ pc[t] = "next"
    /\ Each(t, [call[t] EXCEPT !.item = Head(pending[t].rest)], Tail(pending[t].rest))

\* The names given to one call.
NameLists ==
    {<< <<"a">>, <<"b">> >>, << <<"a", Sep, "b">>, <<"a">> >>, << <<"b">> >>}

SingleCalls ==
    {Args("create_dataset", <<"a">>, FALSE, IntShape(1), "i4", FALSE, NoData),
     Args("require_dataset", <<"a">>, FALSE, IntShape(1), "i4", FALSE, NoData),
     Args("__setitem__", <<"b">>, FALSE, NoShape, "", FALSE, DataOf(IntShape(1), "i4")),
     Args("__delitem__", <<"a">>, FALSE, NoShape, "", FALSE, NoData)}

\* Two threads with one synchronizer, each mutation in steps.
NextGroups ==
    \E t \in {Main, Other} :
        \/ \E names \in NameLists : CreateGroups(t, names)
        \/ \E names \in NameLists : RequireGroups(t, names)
        \/ NextName(t)
        \/ \E args \in SingleCalls : Begin(t, args)
        \/ Acquire(t)
        \/ Check(t)
        \/ Write(t)
        \/ Return(t)
        \/ Release(t)

GroupsSpec == InitReaders /\ [][NextGroups]_vars

----------------------------------------------------------------------------
(* Two threads that require the same group through handles with one        *)
(* synchronizer, each mutation in steps.                                    *)

RequireCalls ==
    {Args("require_group", <<"a">>, FALSE, NoShape, "", FALSE, NoData),
     Args("require_group", <<"b">>, FALSE, NoShape, "", FALSE, NoData),
     Args("create_group", <<"a", Sep, "b">>, FALSE, NoShape, "", FALSE, NoData)}

NextRequire ==
    \E t \in {Main, Other} :
        \/ \E args \in RequireCalls : Begin(t, args)
        \/ Acquire(t)
        \/ Check(t)
        \/ Write(t)
        \/ Return(t)
        \/ Release(t)

RequireSpec == InitReaders /\ [][NextRequire]_vars

----------------------------------------------------------------------------
(* Navigation.  A caller goes from the handle it was given to the handles  *)
(* that lookups, dot access, groups(), arrays() and traversals return, and *)
(* from those further, and calls mutating methods through every Group      *)
(* handle it comes to.                                                     *)

GetAttr(t, args) == args.op = "__getattr__" /\ Read(t, args)

\* The Group and Array handles that a call of the method op returned as r.
Handles(op, r) ==
    IF r.kind \in {"Group", "Array"} THEN {r}
    ELSE IF r.kind # "Value" THEN {}
    ELSE CASE op \in {"groups", "arrays"} -> {r.value[i][2] : i \in 1..Len(r.value)}
           [] op = "visitvalues" -> Range(r.value.calls)
           [] op = "visititems" -> {r.value.calls[i][2] : i \in 1..Len(r.value.calls)}
           [] OTHER -> {}

\* The caller goes on with a Group handle that its last call returned.
Enter(t) ==
    /\ pc[t] = "idle"
    /\ \E g \in Handles(call[t].op, result[t]) :
          /\ g.kind = "Group"
          /\ g # handle[t]
          /\ handle' = [handle EXCEPT ![t] = g]
    /\ UNCHANGED <<store, chunk_store, locks, pc, call, result, repeat, pending>>

\* The hierarchies navigated: the root alone, with an array "a", with groups
\* "a" and "b", and with a group or an array "a/b" below the group "a".
NavStores ==
    {StoreOf(present) :
        present \in {{}, {array_key(<<"a">>)}, {group_key(<<"a">>), group_key(<<"b">>)},
                     {group_key(<<"a">>), group_key(<<"a", Sep, "b">>)},
                     {group_key(<<"a">>), group_key(<<"b">>), array_key(<<"a", Sep, "b">>)}}}

NavReads ==
    {ReadArgs(op, item, 0) : op \in {"__getitem__", "__getattr__"}, item \in {<<"a">>, <<"b">>}}
    \cup {ReadArgs("visitvalues", <<>>, 0), ReadArgs("visititems", <<>>, 1)}
    \cup {ReadArgs(op, <<>>, 0) : op \in {"groups", "arrays"}}

\* The mutating calls name their paths from the root, whatever handle they
\* are made through.
NavWrites ==
    {Args("create_group", <<Sep, "b">>, FALSE, NoShape, "", FALSE, NoData),
     Args("create_dataset", <<Sep, "a", Sep, "b">>, TRUE, IntShape(1), "i4", FALSE, NoData),
     Args("__delitem__", <<Sep, "a">>, FALSE, NoShape, "", FALSE, NoData)}

\* The handle given: of the root, read-only or writable, with or without a
\* separate chunk store and a synchronizer.  Other keeps it.
InitNav ==
    /\ store \in NavStores
    /\ chunk_store = EmptyStore
    /\ locks = {}
    /\ pc = [t \in Threads |-> "idle"]
    /\ call = [t \in Threads |-> NoCall]
    /\ result = [t \in Threads |-> NoResult]
    /\ repeat = [t \in Threads |-> FALSE]
    /\ pending = [t \in Threads |-> NoPending]
    /\ \E read_only \in BOOLEAN, cs \in {NoStore, SeparateChunkStore},
          sync \in {NoSynchronizer, Synchronizer} :
           handle = [t \in Threads |-> Group(store, <<>>, read_only, cs, sync)]

NextNav ==
    \/ \E args \in NavReads :
           \/ GetItem(Main, args)
           \/ GetAttr(Main, args)
           \/ Groups(Main, args)
           \/ Arrays(Main, args)
           \/ VisitValues(Main, args)
           \/ VisitItems(Main, args)
    \/ Enter(Main)
    \/ \E args \in NavWrites : Begin(Main, args)
    \/ Acquire(Main)
    \/ Check(Main)
    \/ Write(Main)
    \/ Return(Main)
    \/ Release(Main)

NavSpec == InitNav /\ [][NextNav]_vars

----------------------------------------------------------------------------
(* The function group. *)

\* zarr.hierarchy.group: contains_group is asked about the store with no
\* path, which is the root.
group(w, overwrite, cs, sync, path) ==
    LET p == normalize_storage_path(path)
        required == IF overwrite \/ ~contains_group(w.store, <<>>)
                    THEN init_group(w, p, cs, overwrite)
                    ELSE w
    IN Then(required,
            LAMBDA w1 : Outcome(w1, Group(w1.store, p, FALSE, cs, sync)))

GroupArgs(overwrite, path) == [op |-> "group", item |-> path, overwrite |-> overwrite]

GroupFnCalls == {GroupArgs(overwrite, path) : overwrite \in BOOLEAN, path \in Paths}

\* A call of group on the store.
GroupFn(t, args) ==
    /\ pc[t] = "idle"
    /\ \E out \in {group(World(store, chunk_store), args.overwrite, NoStore, NoSynchronizer,
                         args.item)} :
       /\ store' = out.store
       /\ chunk_store' = out.chunk
       /\ call' = [call EXCEPT ![t] = args]
       /\ repeat' = [repeat EXCEPT ![t] = FALSE]
       /\ result' = [result EXCEPT ![t] = out.result]
       /\ handle' = [handle EXCEPT ![t] = IF out.result.kind = "Group" THEN out.result ELSE @]
       /\ UNCHANGED <<locks, pc, pending>>

\* The store given to group: a new, empty one, or one with a root group and
\* whatever else.
InitGroupFn ==
    /\ store \in Stores \cup {EmptyStore}
    /\ chunk_store = EmptyStore
    /\ locks = {}
    /\ pc = [t \in Threads |-> "idle"]
    /\ call = [t \in Threads |-> NoCall]
    /\ result = [t \in Threads |-> NoResult]
    /\ repeat = [t \in Threads |-> FALSE]
    /\ pending = [t \in Threads |-> NoPending]
    /\ handle = [t \in Threads |-> RootHandle(NoStore, NoSynchronizer)]

NextGroupFn == \E args \in GroupFnCalls : GroupFn(Main, args)

GroupFnSpec == InitGroupFn /\ [][NextGroupFn]_vars

----------------------------------------------------------------------------
(* Claims about threads that read and write at the same time. *)

\* A traversal is iterations and lookups of the nodes it comes to; the calls
\* that are one look at the store each are the others.
SingleReads == {args \in ReaderCalls : args.op \notin VisitOps}

\* C21: no reading method takes the synchronizer's lock: whoever holds the
\* lock and however many of its updates a mutation has made, every reading
\* call of another thread can take its step, and the step of any reading
\* call, a traversal's too, leaves the locks and the writer where they were.
C21_ReadsNeverWait ==
    /\ [](\A args \in SingleReads :
              ENABLED (ReadCall(Other, args) \/ ViewCall(Other, args)))
    /\ [][call'[Other] # call[Other] \/ result'[Other] # result[Other] =>
              UNCHANGED <<locks, pc, pending, store, chunk_store>>]_vars

\* The root after the first update of create_group("a/b"): the group "a"
\* and nothing below it.
HalfCreated == setitem(RootStore, group_key(<<"a">>), GroupMeta)

\* Main holds the lock and has made the group "a" but not yet "a/b", and
\* Other's traversal has returned what the store holds between the two
\* updates.
C21_Witness ==
    /\ pc[Main] = "writing"
    /\ <<_lock_key(handle[Main]), Main>> \in locks
    /\ call[Main].op = "create_group"
    /\ pending[Main].ops # <<>>
    /\ store = HalfCreated
    /\ call[Other] = ReadArgs("visitvalues", <<>>, 0)
    /\ result[Other] = _read(handle[Other], HalfCreated, call[Other])

\* The construction of the Group a lookup found ends: at the guard condition
\* with an error, or at the read of the metadata.
GroupLookupEnds == pc[Other] \in {"found_group", "metadata"} /\ pc'[Other] = "idle"

\* The path is a group still.
StillGroup(S, path) == contains_group(S, path) /\ ~contains_array(S, path)

\* C22: a lookup that found its path to be a group, and whose path is no
\* group any more when the handle is constructed, fails with the
\* group-not-found error; while the path is a group it returns the handle.
C22_ChangedIsGroupNotFound ==
    [][GroupLookupEnds =>
          result'[Other] = IF StillGroup(store, LookupPath(Other))
                           THEN Group(store, LookupPath(Other), FALSE, NoStore, NoSynchronizer)
                           ELSE Error("GroupNotFoundError")]_vars

\* C22: a lookup that found its path to be a group does not fail with the
\* KeyError of a missing member whatever happens to the path afterwards: it
\* fails with the contains-array error when the path holds an array at the
\* guard condition of the constructor, with the group-not-found error when
\* the group metadata is gone at the read, and returns the handle otherwise.
C22_ChangedFailsLookup ==
    [][GroupLookupEnds =>
          result'[Other] =
              CASE pc[Other] = "found_group" -> Error("ContainsArrayError")
                [] ~contains_group(store, LookupPath(Other)) -> Error("GroupNotFoundError")
                [] OTHER -> Group(store, LookupPath(Other), FALSE, NoStore, NoSynchronizer)]_vars

\* Other found "a" to be a group, Main deleted it, and the lookup failed
\* with the group-not-found error.
C22_Witness ==
    /\ call[Other] = ReadArgs("__getitem__", <<"a">>, 0)
    /\ pc[Other] = "idle"
    /\ result[Other] = Error("GroupNotFoundError")
    /\ call[Main].op = "__delitem__"
    /\ ~contains_group(store, <<"a">>)

----------------------------------------------------------------------------
(* Claims about the listings of a traversal. *)

Count(seq, x) == Cardinality({i \in 1..Len(seq) : seq[i] = x})

\* A traversal through the handle h of the store S listed the children of
\* the handle and of every group func was called with `each` times, those of
\* the node at which func returned a value `last` times, and nothing else.
ListedPerNode(h, S, op, out, each, last) ==
    LET names == Visited(op, h.path, out.calls)
        node(i) == _key_prefix(h) \o names[i]
        stopped == out.returned = VisitorValue
    IN /\ Count(out.listed, h.path) = each
       /\ \A i \in 1..Len(names) :
              Count(out.listed, node(i)) =
                  IF contains_array(S, node(i)) THEN 0
                  ELSE IF stopped /\ i = Len(names) THEN last
                  ELSE each
       /\ Range(out.listed) \subseteq {h.path} \cup {node(i) : i \in 1..Len(names)}

\* C23: a traversal lists the children once for every group node func is
\* called with, the node at which func returns a value included, once for
\* the handle it starts at, and never for an array node.
C23_OneListingPerGroup ==
    [][call'[Main].op \in VisitOps =>
          ListedPerNode(handle[Main], store, call'[Main].op, result'[Main].value, 1, 1)]_vars

\* C23: a traversal evaluates the sorted child names, which lists the store
\* twice, for the handle it starts at and for every group node func was
\* called with before the call that returned a value or, with no such call,
\* for every group node; it lists nothing for the node at which func
\* returned a value and nothing for an array node.
C23_ListingsWhenResumed ==
    [][call'[Main].op \in VisitOps =>
          ListedPerNode(handle[Main], store, call'[Main].op, result'[Main].value, 2, 0)]_vars

\* func returned a value at the group "a", the first node from the root:
\* the root has been listed and "a", which has the member "a/b", has not.
C23_Witness ==
    /\ call[Main].op = "visitvalues"
    /\ call[Main].stop = 1
    /\ handle[Main].path = <<>>
    /\ contains_group(store, <<"a", Sep, "b">>)
    /\ result[Main].value.returned = VisitorValue
    /\ result[Main].value.calls[1].kind = "Group"
    /\ result[Main].value.calls[1].path = <<"a">>
    /\ result[Main].value.listed = << <<>>, <<>> >>

----------------------------------------------------------------------------
(* Claims about concurrent require_group. *)

\* Thread t is between the existence check of its call and the last of its
\* store updates, or about to check.
InBody(t) == pc[t] \in {"guarded", "writing"}

RequireA == Args("require_group", <<"a">>, FALSE, NoShape, "", FALSE, NoData)

\* Thread t assigns the group metadata of "a".
Initializes(t) ==
    /\ pc[t] = "writing"
    /\ pending[t].ops # <<>>
    /\ pending'[t].ops = Tail(pending[t].ops)
    /\ Head(pending[t].ops).key = group_key(<<"a">>)
    /\ ~Head(pending[t].ops).del

\* C24: when threads with one synchronizer call require_group of a path that
\* is no group yet, the group is initialized once, by a call that found it
\* absent and with no other call's check or update since; no group made
\* below it is lost; and the calls that have returned have returned equal
\* handles.
C24_RequireOnce ==
    /\ [](~(InBody(Main) /\ InBody(Other)))
    /\ []((/\ call[Main] = RequireA /\ call[Other] = RequireA
           /\ result[Main] # NoResult /\ result[Other] # NoResult) =>
              result[Main] = result[Other] /\ result[Main].kind = "Group")
    /\ [][/\ \A t \in {Main, Other} : Initializes(t) => ~contains_group(store, <<"a">>)
          /\ \A q \in {<<"a">>, <<"a", Sep, "b">>} :
                 contains_group(store, q) => contains_group(store', q)]_vars

\* Main has found "a" absent and is about to initialize it, holding the
\* lock, while Other has called require_group("a") too and waits for the
\* lock.
C24_Witness ==
    /\ call[Main] = RequireA
    /\ call[Other] = RequireA
    /\ pc[Main] = "writing"
    /\ pending[Main].ops # <<>>
    /\ pc[Other] = "acquire"
    /\ ~contains_group(store, <<"a">>)

----------------------------------------------------------------------------
(* Claims about navigation. *)

\* The handle g has the flags and the stores of the handle h.
SameAccess(g, h) ==
    /\ g.read_only = h.read_only
    /\ g.chunk_store = h.chunk_store
    /\ g.synchronizer = h.synchronizer

\* C25: every Group and Array handle reached from a handle by lookups, dot
\* access, groups(), arrays() and traversals, to any depth, has the
\* read-only flag, the chunk store and the synchronizer of the handle the
\* navigation started from, and no call through a handle reached from a
\* read-only handle changes the store.
C25_ReadOnlyPropagates ==
    /\ [](/\ SameAccess(handle[Main], handle[Other])
          /\ \A g \in Handles(call[Main].op, result[Main]) : SameAccess(g, handle[Other]))
    /\ [][handle[Other].read_only => UNCHANGED <<store, chunk_store>>]_vars

\* From a read-only handle of the root the caller has gone to the group "a",
\* found the array "a/b" through it, read-only too, and been refused a
\* mutation through the handle of "a".
C25_Witness ==
    /\ handle[Other].read_only
    /\ handle[Other].path = <<>>
    /\ handle[Main].path = <<"a">>
    /\ handle[Main].read_only
    /\ call[Main].op = "create_group"
    /\ result[Main] = Error("ReadOnlyError")

----------------------------------------------------------------------------
(* Claims about the lock within one call. *)

Holds(t) == <<_lock_key(handle[t]), t>> \in locks

\* C26: no thread comes to the lock of its handle's synchronizer while it
\* holds it: a thread that is to enter the with block, or between the names
\* of create_groups or require_groups, or not in a call, holds no lock, a
\* function running inside the with block never leads to a second entering,
\* and every name of create_groups and require_groups is entered for and
\* released after on its own.
C26_NoReentry ==
    /\ [](\A t \in {Main, Other} : pc[t] \in {"idle", "acquire", "next"} => ~Holds(t))
    /\ [][\A t \in {Main, Other} :
              /\ pc[t] \in {"guarded", "writing"} => pc'[t] # "acquire"
              /\ (pc[t] = "next" /\ pc'[t] # "next") => pc'[t] = "acquire"]_vars

\* Main is between the first and the second name of create_groups and holds
\* no lock, and Other, inside the with block, is creating the array that
\* require_dataset found missing.
C26_Witness ==
    /\ pc[Main] = "next"
    /\ call[Main].op = "create_group"
    /\ result[Main].kind = "Group"
    /\ ~Holds(Main)
    /\ call[Other].op = "require_dataset"
    /\ pc[Other] = "writing"
    /\ pending[Other].ops # <<>>
    /\ Holds(Other)

----------------------------------------------------------------------------
(* Claims about the function group. *)

\* group returned a writable handle of the path q.
WritableAt(r, q) == r.kind = "Group" /\ r.path = q /\ ~r.read_only

\* C27: group with overwrite=False on a path that is no array makes the path
\* a group exactly when it is none, leaves the store as it is when the path
\* is a group already, and returns a writable handle of the path either
\* way; with overwrite=True it ends with a freshly initialized group at the
\* path.
C27_RequiresGroupAtPath ==
    [][call'[Main].op = "group" =>
          LET q == normalize_storage_path(call'[Main].item)
          IN IF call'[Main].overwrite
             THEN WritableAt(result'[Main], q) /\ Fresh(store', q)
             ELSE ~contains_array(store, q) =>
                     /\ WritableAt(result'[Main], q)
                     /\ contains_group(store', q)
                     /\ contains_group(store, q) => UNCHANGED store]_vars

====
